---- MODULE Spec2Model ----
(***************************************************************************)
(* CodeTimeMachine: the SQLite session store (DatabaseWrapper), the        *)
(* recorder daemon that appends to it (CodeTimeMachineDaemon), and the     *)
(* playback server that replays it over a WebSocket (PlaybackServer);      *)
(* and the dependency-free ctm.js: the JSON session file (FileDatabase),   *)
(* its polling recorder (FileDaemon), its stop command and its WebServer.  *)
(*                                                                         *)
(* Time is wall-clock milliseconds (Date.now()).  It is modelled as a      *)
(* non-decreasing clock `now` that starts at 1000.                         *)
(***************************************************************************)
EXTENDS Integers, Sequences, FiniteSets, TLC

VARIABLES now, session, events, file_snapshots, diffs,
          timers, playInterval, slider, log, response,
          sessionFile, daemonData, isRunning, current, tieOrder, stopData,
          fsFiles, watchedFiles, ops, seen, webData, snapshotsBefore,
          currentSession, pidFile, dbs, daemons, cmds,
          extension, timeouts, documents, console

\* ctm.js: the JSON session file on disk, the FileDatabase.data of the daemon
\* process, the daemon's isRunning, whether current.json exists, and the
\* FileDatabase.data of a stop command between its load() and its save()
\* (<<>>: no stop command is there, <<d>>: it holds d).
\* The project directory as the recorder polls it: for every path the file
\* there (<<>>: none, <<f>>: a file with modification time f.mtime that holds
\* f.text), FileDaemon.watchedFiles with the lastModified and lastSize of each
\* watch (<<>>: not watched), and how many times each path was created,
\* edited or deleted since the recorder started.
watchVars == <<fsFiles, watchedFiles, ops>>

ctmVars == <<sessionFile, daemonData, isRunning, current, stopData, watchVars>>

\* The readers: for the client of /api/events of the playback server and for
\* the client of /api/events of the WebServer of ctm.js, the events returned
\* to it so far, each with the time of the query that first returned it and
\* the number of events the recorder had appended by then; and the
\* FileDatabase.data the WebServer loaded when it was constructed (<<>>: no
\* WebServer yet).
readVars == <<seen, webData>>

\* cli.js, over the recordings of one user: the content of
\* current_session.json and of daemon.pid (NULL: no such file; ctm.js keeps
\* the PID of its daemon in the same file of the same directory), the session
\* databases and the daemons in the order they were created, and the start
\* and stop commands that were run, each with the step it has reached.
cliVars == <<currentSession, pidFile, dbs, daemons, cmds>>

\* The VS Code extension: its fields (activated: activate() has run;
\* isRecording; disposables: how many listeners of each kind are registered;
\* debounceTimers: for every file the timeout of the map, or NULL; awaits: the
\* command whose exec a start or stop of the extension waits for), every
\* timeout that setTimeout has created, the length of the text and the
\* version of each document in the editor, and the lines written by console.log.
extVars == <<extension, timeouts, documents, console>>

\* The SQLite store of the recording in progress and its playbacks.
recVars == <<session, events, file_snapshots, diffs, timers, playInterval, slider, log>>

vars == <<now, session, events, file_snapshots, diffs,
          timers, playInterval, slider, log, response, ctmVars, tieOrder, extVars, readVars,
          snapshotsBefore, cliVars>>

\* For every row of diffs, in the order of the table, the number of rows
\* file_snapshots had when the diff was inserted: the two tables have no
\* common rowid, and this is what tells which was appended first.
appendVars == <<snapshotsBefore>>

storeVars == <<session, events, file_snapshots, diffs>>
playVars == <<timers, playInterval, log>>

(***************************************************************************)
(* Bounds of the model.                                                    *)
(***************************************************************************)
MaxClockSteps == 1
MaxEvents == 2
MaxDiffs == 2
MaxPlays == 2
MaxMsgs == 3
MaxCommands == 3
MaxOps == 3

Paths == {"a.js", "b.js"}
Contents == {"x"}
\* Texts of the files of the polled project: a small and a large one.
Texts == {"x", "over"}
\* Texts of the files that come with a modification time of their own: an
\* empty and a small one.
RestoredTexts == {"", "x"}
Patches == {"y", "z"}
\* Texts of SizeCap - 1, SizeCap and SizeCap + 1 characters.
LargeContents == {"under", "cap", "over"}
Conns == {"ws1"}
Sockets == {"ws1", "ws2"}
SpeedOptions == {1, 2}

(***************************************************************************)
(* Program constants.                                                      *)
(***************************************************************************)
NULL == -1

\* What daemon.pid holds after ctm.js has spawned its FileDaemon; the
\* daemons of cli.js are numbered from 1.
FileDaemonPid == 0

\* process.kill(pid, 'SIGTERM') inside try/catch: a live daemon of cli.js is
\* signalled; the FileDaemon of ctm.js runs its handler, FileDaemon_stop, in
\* its own time; a process that is gone makes kill throw, which is caught.
kill(pid) ==
    IF pid \in 1..Len(daemons)
    THEN [daemons EXCEPT ![pid].state = IF @ = "live" THEN "signalled" ELSE @]
    ELSE daemons
ClockStep == 50
SizeCap == 100000
TickMs == 100
SeekWindow == 1000
\* stats.mtime.getTime() of a file whose modification time is the epoch
EpochTime == 0
\* A seek target whose window [FarTime - SeekWindow, FarTime + SeekWindow]
\* begins one clock step after the start of the session.
FarTime == 1000 + ClockStep + SeekWindow
DefaultSequence == 0
SnapshotLimit == 50000

\* content.length, and stats.size of a file that holds content: a short text
\* is written out, a large one is named.
contentLength(content) ==
    CASE content = "under" -> SizeCap - 1
      [] content = "cap" -> SizeCap
      [] content = "over" -> SizeCap + 1
      [] OTHER -> Len(content)

\* The clock is read at session start (1000) and every ClockStep after it.
Times == {1000 + i * ClockStep : i \in 0..MaxClockSteps}

NoResponse == [route |-> "none"]

(***************************************************************************)
(* Helpers on sequences.                                                   *)
(***************************************************************************)
Range(s) == {s[i] : i \in 1..Len(s)}

Perms(rows) ==
    {p \in [1..Len(rows) -> Range(rows)] : \A r \in Range(rows) : \E i \in 1..Len(rows) : p[i] = r}

(***************************************************************************)
(* DatabaseWrapper: the three tables are sequences in rowid order; the     *)
(* AUTOINCREMENT id of a row is its position.                              *)
(***************************************************************************)

\* The new row takes the place of the rows there are.
addEventOverwriting(sessionId, type, source, data, sequence) ==
    <<[id |-> Len(events) + 1, session_id |-> sessionId, timestamp |-> now,
       type |-> type, source |-> source, data |-> data, sequence |-> sequence]>>

\* INSERT INTO events (...) with timestamp = Date.now()
addEvent(sessionId, type, source, data, sequence) ==
    Append(events, [id |-> Len(events) + 1, session_id |-> sessionId, timestamp |-> now,
                    type |-> type, source |-> source, data |-> data, sequence |-> sequence])

\* A snapshot stamped with the start of the session, not with the time of
\* the append, less the number of rows there are.
addFileSnapshotBackdated(sessionId, filePath, content) ==
    Append(file_snapshots, [id |-> Len(file_snapshots) + 1, session_id |-> sessionId,
                            file_path |-> filePath,
                            timestamp |-> session.start_time - Len(file_snapshots),
                            content |-> content, size |-> contentLength(content)])

\* INSERT INTO file_snapshots (...) with timestamp = Date.now()
addFileSnapshot(sessionId, filePath, content) ==
    Append(file_snapshots, [id |-> Len(file_snapshots) + 1, session_id |-> sessionId,
                            file_path |-> filePath, timestamp |-> now,
                            content |-> content, size |-> contentLength(content)])

\* INSERT INTO diffs (...) with timestamp = Date.now()
addDiff(sessionId, filePath, diffData) ==
    Append(diffs, [id |-> Len(diffs) + 1, session_id |-> sessionId, file_path |-> filePath,
                   timestamp |-> now, diff_data |-> diffData])

\* Rows with equal keys returned in any order, and not the same at every call.
InAnyOrder(a, b) == TRUE

\* SQL leaves the order of rows with equal ORDER BY keys unspecified; SQLite
\* returns them in the order of its scan, by rowid upwards or downwards, the
\* same at every run of a query: tieOrder.  Row a comes before row b.
InTieOrder(a, b) == IF tieOrder = "asc" THEN a.id < b.id ELSE a.id > b.id

\* ORDER BY timestamp, sequence: the key the rows are sorted on.
OrderKeyLeq(a, b) ==
    \/ a.timestamp < b.timestamp
    \/ a.timestamp = b.timestamp /\ a.sequence <= b.sequence

IsOrdered(rows) ==
    \A i, j \in 1..Len(rows) : i < j => OrderKeyLeq(rows[i], rows[j])

\* The rows as SELECT ... ORDER BY timestamp, sequence returns them.
OrderBy(rows) ==
    {p \in Perms(rows) :
        /\ IsOrdered(p)
        /\ \A i, j \in 1..Len(p) :
              (i < j /\ OrderKeyLeq(p[j], p[i])) => InTieOrder(p[i], p[j])}

\* The same without the BETWEEN: every event of the session.
getEventsOfSession(sessionId, startTime, endTime) ==
    OrderBy(SelectSeq(events, LAMBDA e : e.session_id = sessionId))

\* SELECT * FROM events WHERE session_id = ? AND timestamp BETWEEN ? AND ?
\*   ORDER BY timestamp, sequence
getEventsInRange(sessionId, startTime, endTime) ==
    LET keep(e) == e.session_id = sessionId /\ startTime <= e.timestamp /\ e.timestamp <= endTime
    IN  OrderBy(SelectSeq(events, keep))

\* TODO in the source: the diffs are not applied, the base content is returned.
applyDiffs(content, selected) == content

\* ORDER BY timestamp ASC instead: the oldest matching row.
OldestSnapshots(sessionId, filePath, timestamp) ==
    LET match(s) == s.session_id = sessionId /\ s.file_path = filePath /\ s.timestamp <= timestamp
        rows == Range(SelectSeq(file_snapshots, match))
    IN  {s \in rows : \A o \in rows : s.timestamp <= o.timestamp}

\* SELECT * FROM file_snapshots WHERE session_id = ? AND file_path = ? AND timestamp <= ?
\*   ORDER BY timestamp DESC LIMIT 1: the row returned, if there is one.
LatestSnapshots(sessionId, filePath, timestamp) ==
    LET match(s) == s.session_id = sessionId /\ s.file_path = filePath /\ s.timestamp <= timestamp
        rows == Range(SelectSeq(file_snapshots, match))
    IN  {s \in rows : \A o \in rows \ {s} :
            \/ o.timestamp < s.timestamp
            \/ o.timestamp = s.timestamp /\ InTieOrder(s, o)}

\* ORDER BY timestamp
IsOrderedByTimestamp(rows) ==
    \A i, j \in 1..Len(rows) : i < j => rows[i].timestamp <= rows[j].timestamp

\* SELECT * FROM diffs WHERE session_id = ? AND file_path = ? AND timestamp > ? AND timestamp <= ?
\*   ORDER BY timestamp
DiffsAfter(sessionId, filePath, fromTime, toTime) ==
    LET match(d) == /\ d.session_id = sessionId /\ d.file_path = filePath
                    /\ d.timestamp > fromTime /\ d.timestamp <= toTime
    IN  {p \in Perms(SelectSeq(diffs, match)) :
            /\ IsOrderedByTimestamp(p)
            /\ \A i, j \in 1..Len(p) :
                  (i < j /\ p[i].timestamp = p[j].timestamp) => InTieOrder(p[i], p[j])}

\* The result of getFileStateAtTime, as a set of one: <<>> is null, <<r>> is the
\* object r.
getFileStateAtTime(sessionId, filePath, timestamp) ==
    IF LatestSnapshots(sessionId, filePath, timestamp) = {}
    THEN {<<>>}
    ELSE {<<[snapshot |-> snap, diffs |-> ds,
             reconstructedContent |-> applyDiffs(snap.content, ds)]>> :
            <<snap, ds>> \in
               {<<s, d>> \in LatestSnapshots(sessionId, filePath, timestamp)
                              \X UNION {DiffsAfter(sessionId, filePath, s2.timestamp, timestamp) :
                                          s2 \in LatestSnapshots(sessionId, filePath, timestamp)} :
                   d \in DiffsAfter(sessionId, filePath, s.timestamp, timestamp)}}

(***************************************************************************)
(* The clock: Date.now() never goes back.                                  *)
(***************************************************************************)
Advance ==
    /\ now + ClockStep \in Times
    /\ now' = now + ClockStep
    /\ UNCHANGED <<session, events, file_snapshots, diffs,
                   timers, playInterval, slider, log>>
    /\ response' = NoResponse
    /\ UNCHANGED <<ctmVars, tieOrder, extVars, readVars, snapshotsBefore, cliVars>>

(***************************************************************************)
(* CodeTimeMachineDaemon: the watcher callbacks.                           *)
(***************************************************************************)
\* stats.size > 100000: the handler returns before recording anything.
TooLarge(content) == contentLength(content) > SizeCap

\* content.length < 100000: the content is stored as a snapshot.
SnapshotAllowed(content) == contentLength(content) < SizeCap

RecordFile(action, filePath, content) ==
    /\ events' = addEvent(session.id, "file_edit", filePath,
                          [action |-> action, size |-> contentLength(content)], DefaultSequence)
    /\ file_snapshots' = IF SnapshotAllowed(content)
                         THEN addFileSnapshot(session.id, filePath, content)
                         ELSE file_snapshots

\* handleFileChange for a changed file of the project that holds content.
FileChange(filePath, content) ==
    /\ Len(events) < MaxEvents
    /\ IF TooLarge(content)
       THEN UNCHANGED <<events, file_snapshots>>
       ELSE RecordFile("change", filePath, content)
    /\ UNCHANGED <<now, session, diffs, timers, playInterval, slider, log>>
    /\ response' = NoResponse
    /\ UNCHANGED <<ctmVars, tieOrder, extVars, readVars, snapshotsBefore, cliVars>>

\* A small file changes.
handleFileChange ==
    \E filePath \in Paths, content \in Contents : FileChange(filePath, content)

\* A file of about the size cap changes.
handleLargeFileChange ==
    \E filePath \in Paths, content \in LargeContents : FileChange(filePath, content)

handleFileAdd ==
    /\ Len(events) < MaxEvents
    /\ \E filePath \in Paths, content \in Contents :
          IF TooLarge(content)
          THEN UNCHANGED <<events, file_snapshots>>
          ELSE RecordFile("add", filePath, content)
    /\ UNCHANGED <<now, session, diffs, timers, playInterval, slider, log>>
    /\ response' = NoResponse
    /\ UNCHANGED <<ctmVars, tieOrder, extVars, readVars, snapshotsBefore, cliVars>>

\* A delete that takes the snapshots of the path with it.
handleFileDelete_cascade ==
    /\ Len(events) < MaxEvents
    /\ \E filePath \in Paths :
          /\ events' = addEvent(session.id, "file_edit", filePath,
                                [action |-> "delete"], DefaultSequence)
          /\ file_snapshots' = SelectSeq(file_snapshots, LAMBDA s : s.file_path # filePath)
    /\ UNCHANGED <<now, session, diffs,
                   timers, playInterval, slider, log>>
    /\ response' = NoResponse
    /\ UNCHANGED <<ctmVars, tieOrder, extVars, readVars, snapshotsBefore, cliVars>>

\* CodeTimeMachineDaemon.handleFileDelete: the 'unlink' event of the watcher
handleFileDelete ==
    /\ Len(events) < MaxEvents
    /\ \E filePath \in Paths :
          events' = addEvent(session.id, "file_edit", filePath,
                             [action |-> "delete"], DefaultSequence)
    /\ UNCHANGED <<now, session, file_snapshots, diffs,
                   timers, playInterval, slider, log>>
    /\ response' = NoResponse
    /\ UNCHANGED <<ctmVars, tieOrder, extVars, readVars, snapshotsBefore, cliVars>>

\* DatabaseWrapper.endSession, called by the stop command of the CLI:
\* UPDATE sessions SET end_time = Date.now() WHERE id = ?
endSession ==
    /\ session.end_time = NULL
    /\ session' = [session EXCEPT !.end_time = now]
    /\ UNCHANGED <<now, events, file_snapshots, diffs,
                   timers, playInterval, slider, log>>
    /\ response' = NoResponse
    /\ UNCHANGED <<ctmVars, tieOrder, extVars, readVars, snapshotsBefore, cliVars>>

\* DatabaseWrapper.addDiff, for a caller that records an incremental patch.
AddDiff ==
    /\ Len(diffs) < MaxDiffs
    /\ \E filePath \in Paths, diffData \in Patches :
          diffs' = addDiff(session.id, filePath, diffData)
    /\ snapshotsBefore' = Append(snapshotsBefore, Len(file_snapshots))
    /\ UNCHANGED <<now, session, events, file_snapshots,
                   timers, playInterval, slider, log>>
    /\ response' = NoResponse
    /\ UNCHANGED <<ctmVars, tieOrder, extVars, readVars, cliVars>>

(***************************************************************************)
(* ctm.js.  FileDatabase.data is a record: the session, the events in      *)
(* append order, and for every path the snapshots of data.files[path] in   *)
(* append order (no entry for a path is the empty sequence; `changes` is   *)
(* their number).  save() writes the whole of data to the session file and *)
(* load() reads the whole file.  A content is a prefix of the text of a    *)
(* file: the text and how many of its characters the content holds.        *)
(***************************************************************************)
\* fs.readFileSync(fullPath, 'utf8') of a file holding text
readFileSync(text) == [text |-> text, length |-> contentLength(text)]

\* content.substring(0, end)
substring(content, end) ==
    [content EXCEPT !.length = IF @ < end THEN @ ELSE end]

\* FileDatabase.createSession and the save() in it, at the start of the
\* recording (the id is `session_${Date.now()}`).
createSession ==
    [session |-> [id |-> 1000, startTime |-> 1000, endTime |-> NULL],
     events |-> <<>>,
     files |-> [filePath \in Paths |-> <<>>]]

\* FileDatabase.endSession on the data d: this.data.session.endTime = Date.now()
FileDatabase_endSession(d) == [d EXCEPT !.session.endTime = now]

\* FileDatabase.addEvent on the data d; the id is Date.now() plus a random
\* fraction that nothing reads.
FileDatabase_addEvent(d, type, source, eventData) ==
    [d EXCEPT !.events = Append(@, [id |-> now, timestamp |-> now, type |-> type,
                                    source |-> source, data |-> eventData])]

\* FileDatabase.addFileSnapshot on the data d
FileDatabase_addFileSnapshot(d, filePath, content) ==
    [d EXCEPT !.files[filePath] =
        Append(@, [timestamp |-> now,
                   content |-> substring(content, SnapshotLimit),
                   size |-> content.length])]

\* The body of checkFile for a watched file whose mtime or size has changed
\* and which now holds text; every FileDatabase call ends with save().
CheckFile(relativePath, text) ==
    /\ isRunning
    /\ Len(daemonData.events) < MaxEvents
    /\ LET recorded == FileDatabase_addEvent(daemonData, "file_change", relativePath,
                                             [size |-> contentLength(text)])
           captured == IF contentLength(text) < SizeCap
                       THEN FileDatabase_addFileSnapshot(recorded, relativePath,
                                                         readFileSync(text))
                       ELSE recorded
       IN  /\ daemonData' = captured
           /\ sessionFile' = captured
    /\ response' = NoResponse
    /\ UNCHANGED <<now, session, events, file_snapshots, diffs,
                   timers, playInterval, slider, log, isRunning, current, tieOrder, extVars, readVars, snapshotsBefore, stopData,
                   watchVars, cliVars>>

\* FileDaemon.watchFile checkFile, on a small file
checkFile == \E relativePath \in Paths, text \in Contents : CheckFile(relativePath, text)

\* FileDaemon.watchFile checkFile, on a file of about the size cap
checkLargeFile ==
    \E relativePath \in Paths, text \in LargeContents : CheckFile(relativePath, text)

(***************************************************************************)
(* FileDaemon over the files of the project.  A handler of the daemon is   *)
(* one turn of its event loop; `st` is what the turn has reached: the      *)
(* FileDatabase.data of the daemon, the session file, watchedFiles, how    *)
(* many times save() was called in the turn, and whether an exception left *)
(* the handler.  `saves` tells for every save() of the turn, in order,     *)
(* whether fs.writeFileSync returns (TRUE) or throws (FALSE).              *)
(***************************************************************************)
\* The most save() calls of one turn: two for every file of a scan.
MaxSaves == 2 * Cardinality(Paths)

AllSaved == [i \in 1..MaxSaves |-> TRUE]
SaveOutcomes == [1..MaxSaves -> BOOLEAN]

\* The end of FileDatabase.addEvent and addFileSnapshot: d is this.data after
\* the push, and this.save() writes it to the session file or throws.
save(st, d, saves) ==
    [st EXCEPT !.data = d,
               !.file = IF saves[st.n + 1] THEN d ELSE @,
               !.n = @ + 1]

\* The catch block of checkFile: statSync or addEvent has thrown.
checkFile_catch(st, relativePath, saves) ==
    IF st.watchedFiles[relativePath][1].lastModified > 0
    THEN LET deleted == save(st, FileDatabase_addEvent(st.data, "file_delete", relativePath,
                                                       [size |-> NULL]), saves)
         IN  IF saves[st.n + 1]
             THEN [deleted EXCEPT !.watchedFiles[relativePath] = <<>>]
             ELSE [deleted EXCEPT !.thrown = TRUE]
    ELSE st

\* checkFile of the watch of relativePath, with the daemon running
checkFile_try(st, relativePath, saves) ==
    IF fsFiles[relativePath] = <<>>
    THEN checkFile_catch(st, relativePath, saves)
    ELSE LET stats == [mtime |-> fsFiles[relativePath][1].mtime,
                       size |-> contentLength(fsFiles[relativePath][1].text)]
             last == st.watchedFiles[relativePath][1]
             recorded == save(st, FileDatabase_addEvent(st.data, "file_change", relativePath,
                                                        [size |-> stats.size]), saves)
             captured == IF stats.size < SizeCap
                         THEN save(recorded,
                                   FileDatabase_addFileSnapshot(
                                       recorded.data, relativePath,
                                       readFileSync(fsFiles[relativePath][1].text)),
                                   saves)
                         ELSE recorded
         IN  IF stats.mtime # last.lastModified \/ stats.size # last.lastSize
             THEN IF saves[st.n + 1]
                  THEN [captured EXCEPT !.watchedFiles[relativePath] =
                            <<[lastModified |-> stats.mtime, lastSize |-> stats.size]>>]
                  ELSE checkFile_catch(recorded, relativePath, saves)
             ELSE st

\* FileDaemon.watchFile: nothing for a watched file, else a new watch and its
\* initial check.
watchFile(st, relativePath, saves) ==
    IF st.watchedFiles[relativePath] # <<>>
    THEN st
    ELSE checkFile_try([st EXCEPT !.watchedFiles[relativePath] =
                                      <<[lastModified |-> 0, lastSize |-> 0]>>],
                       relativePath, saves)

\* The entries of the project directory in the order readdirSync lists them
PathOrder == <<"a.js", "b.js">>
readdirSync == SelectSeq(PathOrder, LAMBDA relativePath : fsFiles[relativePath] # <<>>)

\* How many times the files of the project were created, edited or deleted
RECURSIVE OpsOf(_)
OpsOf(entries) == IF entries = <<>> THEN 0 ELSE ops[Head(entries)] + OpsOf(Tail(entries))

\* The loop of FileDaemon.scanAndWatch over entries
RECURSIVE scanEntries(_, _, _)
scanEntries(st, entries, saves) ==
    IF entries = <<>>
    THEN st
    ELSE scanEntries(watchFile(st, Head(entries), saves), Tail(entries), saves)

TurnStart ==
    [data |-> daemonData, file |-> sessionFile, watchedFiles |-> watchedFiles,
     n |-> 0, thrown |-> FALSE]

\* What a turn of the daemon leaves: an exception that leaves a timer
\* callback ends the process, without endSession.
TurnEnd(st) ==
    /\ Len(st.data.events) <= MaxEvents
    /\ daemonData' = st.data
    /\ sessionFile' = st.file
    /\ watchedFiles' = IF st.thrown THEN [relativePath \in Paths |-> <<>>]
                       ELSE st.watchedFiles
    /\ isRunning' = ~st.thrown
    /\ response' = NoResponse
    /\ UNCHANGED <<now, recVars, current, tieOrder, extVars, readVars, snapshotsBefore, stopData, fsFiles, ops, cliVars>>

\* A rescan whose timer outlives stop() and does not look at isRunning.
ScanAndWatch_afterStop(saves) ==
    /\ \E relativePath \in Paths :
          fsFiles[relativePath] # <<>> /\ watchedFiles[relativePath] = <<>>
    /\ TurnEnd(scanEntries(TurnStart, readdirSync, saves))

\* FileDaemon.scanAndWatch, at start and on the 5-second scanInterval
ScanAndWatch(saves) ==
    /\ isRunning
    /\ \E relativePath \in Paths :
          fsFiles[relativePath] # <<>> /\ watchedFiles[relativePath] = <<>>
    /\ TurnEnd(scanEntries(TurnStart, readdirSync, saves))

\* checkFile on the 1-second interval of the watch of relativePath
PollFile(relativePath, saves) ==
    /\ isRunning
    /\ watchedFiles[relativePath] # <<>>
    /\ checkFile_try(TurnStart, relativePath, saves) # TurnStart
    /\ TurnEnd(checkFile_try(TurnStart, relativePath, saves))

scanAndWatch == ScanAndWatch(AllSaved)
pollFile == \E relativePath \in Paths : PollFile(relativePath, AllSaved)

\* The same turns with a save() that throws
scanAndWatch_saveThrows == \E saves \in SaveOutcomes \ {AllSaved} : ScanAndWatch(saves)
pollFile_saveThrows ==
    \E relativePath \in Paths, saves \in SaveOutcomes \ {AllSaved} :
        PollFile(relativePath, saves)

\* Someone creates or edits a file of the project: its mtime is the time of
\* the write.
writeProjectFile ==
    /\ \E relativePath \in Paths, text \in Texts :
          /\ OpsOf(PathOrder) < MaxOps
          /\ fsFiles' = [fsFiles EXCEPT ![relativePath] = <<[mtime |-> now, text |-> text]>>]
          /\ ops' = [ops EXCEPT ![relativePath] = @ + 1]
    /\ response' = NoResponse
    /\ UNCHANGED <<now, recVars, sessionFile, daemonData, isRunning, current, tieOrder, extVars, readVars, snapshotsBefore,
                   stopData, watchedFiles, cliVars>>

\* A file is put into the project with the modification time it is given
\* (utimes, as an archive tool or a reproducible checkout does): the epoch.
restoreProjectFile ==
    /\ \E relativePath \in Paths, text \in RestoredTexts :
          /\ OpsOf(PathOrder) < MaxOps
          /\ fsFiles[relativePath] = <<>>
          /\ fsFiles' = [fsFiles EXCEPT ![relativePath] = <<[mtime |-> EpochTime, text |-> text]>>]
          /\ ops' = [ops EXCEPT ![relativePath] = @ + 1]
    /\ response' = NoResponse
    /\ UNCHANGED <<now, recVars, sessionFile, daemonData, isRunning, current, tieOrder, extVars,
                   readVars, snapshotsBefore, stopData, watchedFiles, cliVars>>

\* Someone deletes a file of the project.
deleteProjectFile ==
    /\ \E relativePath \in Paths :
          /\ OpsOf(PathOrder) < MaxOps
          /\ fsFiles[relativePath] # <<>>
          /\ fsFiles' = [fsFiles EXCEPT ![relativePath] = <<>>]
          /\ ops' = [ops EXCEPT ![relativePath] = @ + 1]
    /\ response' = NoResponse
    /\ UNCHANGED <<now, recVars, sessionFile, daemonData, isRunning, current, tieOrder, extVars, readVars, snapshotsBefore,
                   stopData, watchedFiles, cliVars>>

\* FileDaemon.stop, on SIGINT or SIGTERM: the process exits at its end.
FileDaemon_stop ==
    /\ isRunning
    /\ isRunning' = FALSE
    /\ watchedFiles' = [relativePath \in Paths |-> <<>>]
    /\ daemonData' = FileDatabase_endSession(daemonData)
    /\ sessionFile' = FileDatabase_endSession(daemonData)
    /\ response' = NoResponse
    /\ UNCHANGED <<now, session, events, file_snapshots, diffs,
                   timers, playInterval, slider, log, current, tieOrder, extVars, readVars, snapshotsBefore, stopData,
                   fsFiles, ops, cliVars>>

\* stopRecording (ctm stop) up to db.load(): SIGTERM is sent to the daemon,
\* whose handler is FileDaemon_stop and runs in the daemon's own time, and
\* daemon.pid is removed; the session file is read into a new FileDatabase.
stopRecording_load ==
    /\ current
    /\ stopData = <<>>
    /\ stopData' = <<sessionFile>>
    /\ daemons' = kill(pidFile)
    /\ pidFile' = NULL
    /\ response' = NoResponse
    /\ UNCHANGED <<now, session, events, file_snapshots, diffs,
                   timers, playInterval, slider, log,
                   sessionFile, daemonData, isRunning, current, tieOrder, extVars, readVars, snapshotsBefore, watchVars,
                   currentSession, dbs, cmds>>

\* The rest of stopRecording: db.endSession() sets the end time in the data
\* that was loaded and saves it; current.json is removed.
stopRecording_save ==
    /\ stopData # <<>>
    /\ sessionFile' = FileDatabase_endSession(stopData[1])
    /\ stopData' = <<>>
    /\ current' = FALSE
    /\ response' = NoResponse
    /\ UNCHANGED <<now, session, events, file_snapshots, diffs,
                   timers, playInterval, slider, log, daemonData, isRunning, tieOrder, extVars,
                   readVars, snapshotsBefore, watchVars, cliVars>>

\* snapshots.filter(s => !timestamp || s.timestamp <= parseInt(timestamp)).pop()
\* for a timestamp given in the query: <<>> is null, <<s>> is the snapshot s.
fileContent(d, filePath, timestamp) ==
    LET kept == SelectSeq(d.files[filePath], LAMBDA s : s.timestamp <= timestamp)
    IN  IF kept = <<>> THEN <<>> ELSE <<kept[Len(kept)]>>

\* What a reader has seen, after one more answer of rows out of a log of
\* `appended` events.
Answered(sofar, rows, appended) ==
    sofar \cup {[event |-> rows[i], at |-> now, rows |-> appended] :
                    i \in {k \in 1..Len(rows) : \A s \in sofar : s.event # rows[k]}}

\* new WebServer(sessionPath): the session file is loaded once.
WebServer ==
    /\ webData = <<>>
    /\ webData' = <<sessionFile>>
    /\ response' = NoResponse
    /\ UNCHANGED <<now, recVars, ctmVars, tieOrder, extVars, snapshotsBefore, seen, cliVars>>

\* WebServer.handleRequest, GET /api/events?start=&end=
WebEvents ==
    /\ webData # <<>>
    /\ \E start \in Times, end \in Times :
          LET rows == SelectSeq(SelectSeq(webData[1].events, LAMBDA e : e.timestamp >= start),
                                LAMBDA e : e.timestamp <= end)
          IN  /\ response' = [route |-> "ctm-events", start |-> start, end |-> end,
                              body |-> rows]
              /\ seen' = [seen EXCEPT !.web = Answered(@, rows, Len(sessionFile.events))]
    /\ UNCHANGED <<now, recVars, ctmVars, tieOrder, extVars, snapshotsBefore, webData, cliVars>>

\* WebServer.handleRequest, GET /api/file-content?path=&timestamp= on a server
\* that has loaded the session file.
WebFileContent ==
    /\ \E filePath \in Paths, timestamp \in Times :
          response' = [route |-> "ctm-file-content", path |-> filePath,
                       timestamp |-> timestamp,
                       body |-> fileContent(sessionFile, filePath, timestamp)]
    /\ UNCHANGED <<now, session, events, file_snapshots, diffs,
                   timers, playInterval, slider, log>>
    /\ UNCHANGED <<ctmVars, tieOrder, extVars, readVars, snapshotsBefore, cliVars>>

(***************************************************************************)
(* cli.js: the start and stop commands.  Every command is a process of its *)
(* own, so the steps of two commands interleave; a step is one access to   *)
(* the files the commands share.  A database is a record: whether the file *)
(* exists, how many rows its sessions table has, and the end_time of its   *)
(* session.  A daemon is "live", "signalled" (SIGTERM sent, its handler    *)
(* not yet at process.exit) or "exited".                                   *)
(***************************************************************************)
NoDatabase == [exists |-> FALSE, sessions |-> 0, end_time |-> NULL]

\* A start that goes on whether or not a session is being recorded.
startRecording_unchecked ==
    /\ Len(cmds) < MaxCommands
    /\ cmds' = Append(cmds, [kind |-> "start", session |-> NULL,
                             keep |-> FALSE, output |-> FALSE,
                             pc |-> "createSession"])
    /\ response' = NoResponse
    /\ UNCHANGED <<now, recVars, ctmVars, tieOrder, extVars, readVars, snapshotsBefore,
                   currentSession, pidFile, dbs, daemons>>

\* ctm start: startRecording up to its isRecording() test.
startRecording_isRecording ==
    /\ Len(cmds) < MaxCommands
    /\ cmds' = Append(cmds, [kind |-> "start", session |-> NULL,
                             keep |-> FALSE, output |-> FALSE,
                             pc |-> IF currentSession # NULL THEN "refused"
                                    ELSE "createSession"])
    /\ response' = NoResponse
    /\ UNCHANGED <<now, recVars, ctmVars, tieOrder, extVars, readVars, snapshotsBefore,
                   currentSession, pidFile, dbs, daemons>>

\* new Database(dbPath), db.init(), db.createSession(...), db.close()
startRecording_createSession(c) ==
    /\ cmds[c].kind = "start" /\ cmds[c].pc = "createSession"
    /\ dbs' = Append(dbs, [exists |-> TRUE, sessions |-> 1, end_time |-> NULL])
    /\ cmds' = [cmds EXCEPT ![c].session = Len(dbs) + 1, ![c].pc = "writeCurrent"]
    /\ response' = NoResponse
    /\ UNCHANGED <<now, recVars, ctmVars, tieOrder, extVars, readVars, snapshotsBefore, currentSession, pidFile, daemons>>

\* fs.writeFileSync(CURRENT_SESSION_FILE, JSON.stringify(sessionInfo))
startRecording_writeCurrent(c) ==
    /\ cmds[c].kind = "start" /\ cmds[c].pc = "writeCurrent"
    /\ currentSession' = cmds[c].session
    /\ cmds' = [cmds EXCEPT ![c].pc = "startDaemon"]
    /\ response' = NoResponse
    /\ UNCHANGED <<now, recVars, ctmVars, tieOrder, extVars, readVars, snapshotsBefore, pidFile, dbs, daemons>>

\* startDaemon(sessionInfo): spawn the daemon, write its PID to PID_FILE.
startDaemon(c) ==
    /\ cmds[c].kind = "start" /\ cmds[c].pc = "startDaemon"
    /\ daemons' = Append(daemons, [session |-> cmds[c].session, state |-> "live"])
    /\ pidFile' = Len(daemons) + 1
    /\ cmds' = [cmds EXCEPT ![c].pc = "done"]
    /\ response' = NoResponse
    /\ UNCHANGED <<now, recVars, ctmVars, tieOrder, extVars, readVars, snapshotsBefore, currentSession, dbs>>

\* ctm stop [--keep] [--output file]: stopRecording up to getCurrentSession().
stopRecording_isRecording ==
    /\ Len(cmds) < MaxCommands
    /\ \E keep \in BOOLEAN, output \in BOOLEAN :
          cmds' = Append(cmds, [kind |-> "stop", session |-> currentSession,
                                keep |-> keep, output |-> output,
                                pc |-> IF currentSession = NULL THEN "refused"
                                       ELSE "stopDaemon"])
    /\ response' = NoResponse
    /\ UNCHANGED <<now, recVars, ctmVars, tieOrder, extVars, readVars, snapshotsBefore,
                   currentSession, pidFile, dbs, daemons>>

\* A stopDaemon that signals the daemon and leaves PID_FILE where it is.
stopDaemon_keepPid(c) ==
    /\ cmds[c].kind = "stop" /\ cmds[c].pc = "stopDaemon"
    /\ daemons' = kill(pidFile)
    /\ cmds' = [cmds EXCEPT ![c].pc = "endSession"]
    /\ response' = NoResponse
    /\ UNCHANGED <<now, recVars, ctmVars, tieOrder, extVars, readVars, snapshotsBefore, currentSession, pidFile, dbs>>

\* stopDaemon(): SIGTERM to the process of PID_FILE (an error of kill, the
\* process being gone, is caught), then the file is removed.
stopDaemon(c) ==
    /\ cmds[c].kind = "stop" /\ cmds[c].pc = "stopDaemon"
    /\ daemons' = kill(pidFile)
    /\ pidFile' = NULL
    /\ cmds' = [cmds EXCEPT ![c].pc = "endSession"]
    /\ response' = NoResponse
    /\ UNCHANGED <<now, recVars, ctmVars, tieOrder, extVars, readVars, snapshotsBefore, currentSession, dbs>>

\* new Database(sessionInfo.dbPath), db.init(), db.endSession(dbId), db.close():
\* a database file that is gone is created again, empty, and the UPDATE
\* changes no row.
stopRecording_endSession(c) ==
    /\ cmds[c].kind = "stop" /\ cmds[c].pc = "endSession"
    /\ dbs' = [dbs EXCEPT ![cmds[c].session] =
                  IF @.exists /\ @.sessions > 0
                  THEN [@ EXCEPT !.end_time = now]
                  ELSE [@ EXCEPT !.exists = TRUE]]
    /\ cmds' = [cmds EXCEPT ![c].pc = "cleanUp"]
    /\ response' = NoResponse
    /\ UNCHANGED <<now, recVars, ctmVars, tieOrder, extVars, readVars, snapshotsBefore, currentSession, pidFile, daemons>>

\* if (!options.keep && !options.output): the temporary database goes.
Removes(keep, output) == ~keep /\ ~output

\* The end of stopRecording: exportSession copies the database to the output
\* file (copied: copyFileSync returns; it throws when the output cannot be
\* written), the temporary database is removed, CURRENT_SESSION_FILE is
\* removed.  unlinkSync or copyFileSync of a file that is gone throws; an
\* exception ends the command there, with exit code 1.
stopRecording_cleanUp(c) ==
    /\ cmds[c].kind = "stop" /\ cmds[c].pc = "cleanUp"
    /\ \E copied \in (IF cmds[c].output THEN BOOLEAN ELSE {TRUE}) :
          LET db == dbs[cmds[c].session]
              removed == Removes(cmds[c].keep, cmds[c].output)
          IN  IF ~copied \/ ((cmds[c].output \/ removed) /\ ~db.exists)
              THEN /\ cmds' = [cmds EXCEPT ![c].pc = "failed"]
                   /\ UNCHANGED <<dbs, currentSession>>
              ELSE /\ dbs' = IF removed
                             THEN [dbs EXCEPT ![cmds[c].session] = NoDatabase]
                             ELSE dbs
                   /\ IF currentSession = NULL
                      THEN /\ cmds' = [cmds EXCEPT ![c].pc = "failed"]
                           /\ UNCHANGED currentSession
                      ELSE /\ cmds' = [cmds EXCEPT ![c].pc = "done"]
                           /\ currentSession' = NULL
    /\ response' = NoResponse
    /\ UNCHANGED <<now, recVars, ctmVars, tieOrder, extVars, readVars, snapshotsBefore, pidFile, daemons>>

\* The SIGTERM handler of daemon.js: stop() closes the watchers and the
\* database and ends in process.exit(0).
daemon_stop(d) ==
    /\ d \in 1..Len(daemons)
    /\ daemons[d].state = "signalled"
    /\ daemons' = [daemons EXCEPT ![d].state = "exited"]
    /\ response' = NoResponse
    /\ UNCHANGED <<now, recVars, ctmVars, tieOrder, extVars, readVars, snapshotsBefore, currentSession, pidFile, dbs, cmds>>

startRecording_step ==
    \E c \in 1..Len(cmds) :
        \/ startRecording_createSession(c)
        \/ startRecording_writeCurrent(c)
        \/ startDaemon(c)

stopRecording_step ==
    \E c \in 1..Len(cmds) :
        \/ stopDaemon(c)
        \/ stopRecording_endSession(c)
        \/ stopRecording_cleanUp(c)

daemonExit == \E d \in 1..MaxCommands + 1 : daemon_stop(d)

(***************************************************************************)
(* The start and stop commands of ctm.js, in the same list of commands.    *)
(* The session file of the model is the one of the session last created;   *)
(* a daemon that is spawned takes the place of the one before it.          *)
(***************************************************************************)
\* FileDatabase.createSession and the save() in it, for a session created now
FileDatabase_createSession ==
    [session |-> [id |-> now, startTime |-> now, endTime |-> NULL],
     events |-> <<>>,
     files |-> [filePath \in Paths |-> <<>>]]

\* node ctm.js start: startRecording up to its getCurrentSession() test.
ctm_startRecording_getCurrentSession ==
    /\ Len(cmds) < MaxCommands
    /\ cmds' = Append(cmds, [kind |-> "ctm start", session |-> NULL,
                             keep |-> FALSE, output |-> FALSE,
                             pc |-> IF current THEN "refused" ELSE "createSession"])
    /\ response' = NoResponse
    /\ UNCHANGED <<now, recVars, ctmVars, tieOrder, extVars, readVars, snapshotsBefore,
                   currentSession, pidFile, dbs, daemons>>

\* db.createSession(projectPath, sessionName), then spawn of the daemon,
\* which loads the session file and starts with nothing watched.
ctm_startRecording_createSession(c) ==
    /\ cmds[c].kind = "ctm start" /\ cmds[c].pc = "createSession"
    /\ sessionFile' = FileDatabase_createSession
    /\ daemonData' = FileDatabase_createSession
    /\ isRunning' = TRUE
    /\ watchedFiles' = [relativePath \in Paths |-> <<>>]
    /\ cmds' = [cmds EXCEPT ![c].pc = "saveCurrentSession"]
    /\ response' = NoResponse
    /\ UNCHANGED <<now, recVars, current, stopData, fsFiles, ops, tieOrder, extVars,
                   readVars, snapshotsBefore, currentSession, pidFile, dbs, daemons>>

\* saveCurrentSession(sessionInfo)
ctm_startRecording_saveCurrentSession(c) ==
    /\ cmds[c].kind = "ctm start" /\ cmds[c].pc = "saveCurrentSession"
    /\ current' = TRUE
    /\ cmds' = [cmds EXCEPT ![c].pc = "writePid"]
    /\ response' = NoResponse
    /\ UNCHANGED <<now, recVars, sessionFile, daemonData, isRunning, stopData,
                   watchVars, tieOrder, extVars, readVars, snapshotsBefore,
                   currentSession, pidFile, dbs, daemons>>

\* fs.writeFileSync(DAEMON_PID_FILE, daemon.pid.toString())
ctm_startRecording_writePid(c) ==
    /\ cmds[c].kind = "ctm start" /\ cmds[c].pc = "writePid"
    /\ pidFile' = FileDaemonPid
    /\ cmds' = [cmds EXCEPT ![c].pc = "done"]
    /\ response' = NoResponse
    /\ UNCHANGED <<now, recVars, sessionFile, daemonData, isRunning, current, stopData,
                   watchVars, tieOrder, extVars, readVars, snapshotsBefore,
                   currentSession, dbs, daemons>>

\* node ctm.js stop [output]: stopRecording up to its getCurrentSession() test.
ctm_stopRecording_getCurrentSession ==
    /\ Len(cmds) < MaxCommands
    /\ \E output \in BOOLEAN :
          cmds' = Append(cmds, [kind |-> "ctm stop", session |-> NULL,
                                keep |-> FALSE, output |-> output,
                                pc |-> IF ~current THEN "refused" ELSE "stopDaemon"])
    /\ response' = NoResponse
    /\ UNCHANGED <<now, recVars, ctmVars, tieOrder, extVars, readVars, snapshotsBefore,
                   currentSession, pidFile, dbs, daemons>>

\* "Stop daemon": SIGTERM to the process of daemon.pid, whose handler runs in
\* the daemon's own time, and the file is removed; then db.load().
ctm_stopRecording_stopDaemon(c) ==
    /\ cmds[c].kind = "ctm stop" /\ cmds[c].pc = "stopDaemon"
    /\ daemons' = kill(pidFile)
    /\ pidFile' = NULL
    /\ stopData' = <<sessionFile>>
    /\ cmds' = [cmds EXCEPT ![c].pc = "endSession"]
    /\ response' = NoResponse
    /\ UNCHANGED <<now, recVars, sessionFile, daemonData, isRunning, current,
                   watchVars, tieOrder, extVars, readVars, snapshotsBefore,
                   currentSession, dbs>>

\* db.endSession() with its save(), the copy to the output file (copied:
\* copyFileSync returns; it throws when the output cannot be written, and
\* the command ends there), and clearCurrentSession().
ctm_stopRecording_endSession(c) ==
    /\ cmds[c].kind = "ctm stop" /\ cmds[c].pc = "endSession"
    /\ stopData # <<>>
    /\ sessionFile' = FileDatabase_endSession(stopData[1])
    /\ stopData' = <<>>
    /\ \E copied \in (IF cmds[c].output THEN BOOLEAN ELSE {TRUE}) :
          IF copied
          THEN /\ current' = FALSE
               /\ cmds' = [cmds EXCEPT ![c].pc = "done"]
          ELSE /\ UNCHANGED current
               /\ cmds' = [cmds EXCEPT ![c].pc = "failed"]
    /\ response' = NoResponse
    /\ UNCHANGED <<now, recVars, daemonData, isRunning,
                   watchVars, tieOrder, extVars, readVars, snapshotsBefore,
                   currentSession, pidFile, dbs, daemons>>

ctm_startRecording_step ==
    \E c \in 1..Len(cmds) :
        \/ ctm_startRecording_createSession(c)
        \/ ctm_startRecording_saveCurrentSession(c)
        \/ ctm_startRecording_writePid(c)

ctm_stopRecording_step ==
    \E c \in 1..Len(cmds) :
        \/ ctm_stopRecording_stopDaemon(c)
        \/ ctm_stopRecording_endSession(c)

\* No command is under way.
AllEnded == \A c \in 1..Len(cmds) : cmds[c].pc \in {"refused", "done", "failed"}

\* The user runs the next command when the one before it has ended.
nextCommand ==
    /\ AllEnded
    /\ \/ startRecording_isRecording
       \/ stopRecording_isRecording
       \/ ctm_startRecording_getCurrentSession
       \/ ctm_stopRecording_getCurrentSession

(***************************************************************************)
(* PlaybackServer: the HTTP routes.  `response` is the reply sent by the   *)
(* step just taken; a step that answers no HTTP request leaves none.       *)
(***************************************************************************)
\* GET /api/events?start=&end= (no type filter)
ApiEvents ==
    /\ \E start \in Times, end \in Times :
          \E rows \in OrderBy(SelectSeq(events,
                        LAMBDA e : start <= e.timestamp /\ e.timestamp <= end)) :
              /\ response' = [route |-> "events", start |-> start, end |-> end, body |-> rows]
              /\ seen' = [seen EXCEPT !.api = Answered(@, rows, Len(events))]
    /\ UNCHANGED <<now, session, events, file_snapshots, diffs,
                   timers, playInterval, slider, log>>
    /\ UNCHANGED <<ctmVars, tieOrder, extVars, snapshotsBefore, webData, cliVars>>

\* GET /api/file/:timestamp?path=
ApiFile ==
    /\ \E filePath \in Paths, timestamp \in Times :
          \E r \in getFileStateAtTime(1, filePath, timestamp) :
              response' = [route |-> "file", path |-> filePath, timestamp |-> timestamp,
                           body |-> r]
    /\ UNCHANGED <<now, session, events, file_snapshots, diffs,
                   timers, playInterval, slider, log>>
    /\ UNCHANGED <<ctmVars, tieOrder, extVars, readVars, snapshotsBefore, cliVars>>

\* SELECT * FROM file_snapshots WHERE file_path = ? AND timestamp <= ?
\*   ORDER BY timestamp DESC LIMIT 1: the row returned, if there is one.
LatestOfPath(filePath, timestamp) ==
    LET match(s) == s.file_path = filePath /\ s.timestamp <= timestamp
        rows == Range(SelectSeq(file_snapshots, match))
    IN  {s \in rows : \A o \in rows \ {s} :
            \/ o.timestamp < s.timestamp
            \/ o.timestamp = s.timestamp /\ InTieOrder(s, o)}

\* GET /api/file-content/:timestamp?file_path= ; the body is { snapshot }.
ApiFileContent ==
    /\ \E filePath \in Paths, timestamp \in Times :
          \E r \in (IF LatestOfPath(filePath, timestamp) = {} THEN {<<>>}
                    ELSE {<<snap>> : snap \in LatestOfPath(filePath, timestamp)}) :
              response' = [route |-> "file-content", path |-> filePath,
                           timestamp |-> timestamp, body |-> r]
    /\ UNCHANGED <<now, session, events, file_snapshots, diffs,
                   timers, playInterval, slider, log>>
    /\ UNCHANGED <<ctmVars, tieOrder, extVars, readVars, snapshotsBefore, cliVars>>

(***************************************************************************)
(* The viewer and the WebSocket side of PlaybackServer.                    *)
(*                                                                         *)
(* A timer is one setInterval of handlePlay together with the variables    *)
(* its callback closes over.  log[ws] is what was received on the          *)
(* connection and what the server passed to ws.send, in order, with the    *)
(* 'close' event of the socket; the entries of a playback carry the number of its *)
(* timer and the value of currentTime at which an event was sent.          *)
(* speed is twice the multiplier, so that the viewer's 0.5x is an integer. *)
(***************************************************************************)
Received(ws) == SelectSeq(log[ws], LAMBDA m : m.kind \in {"play", "pause", "seek"})

RECURSIVE ReceivedCount(_)
\* How many messages the server has received on the connections of W.
ReceivedCount(W) ==
    IF W = {} THEN 0
    ELSE LET ws == CHOOSE w \in W : TRUE
         IN  Len(Received(ws)) + ReceivedCount(W \ {ws})

\* const endTime = session.end_time || Date.now()
EndTimeOf(s) == IF s.end_time # NULL /\ s.end_time # 0 THEN s.end_time ELSE now

\* currentTime += 100 * speed
Step(speed) == (TickMs * speed) \div 2

\* The connection has been closed: its 'close' event is in the log.
Closed(ws) == \E i \in 1..Len(log[ws]) : log[ws][i].kind = "close"

\* The server's handlePlay(ws, startTime, speed) with the 'play' message that
\* the message handler received.
handlePlay(ws, startTime, speed) ==
    /\ Len(timers) < MaxPlays
    /\ \E evs \in getEventsInRange(session.id, startTime, EndTimeOf(session)) :
          /\ timers' = Append(timers,
                [ws |-> ws, events |-> evs, startTime |-> startTime,
                 endTime |-> EndTimeOf(session), speed |-> speed,
                 currentTime |-> startTime, eventIndex |-> 0, live |-> TRUE])
          /\ playInterval' = [playInterval EXCEPT ![ws] = Len(timers) + 1]
          /\ log' = [log EXCEPT ![ws] =
                Append(@, [kind |-> "play", startTime |-> startTime,
                           speed |-> speed, timer |-> Len(timers) + 1])]

\* Every interval of the server cleared, not only the connection's own.
handlePauseAll(ws) ==
    /\ timers' = [k \in 1..Len(timers) |-> [timers[k] EXCEPT !.live = FALSE]]
    /\ playInterval' = [w \in DOMAIN playInterval |-> NULL]
    /\ log' = [log EXCEPT ![ws] = Append(@, [kind |-> "pause"])]

\* The server's handlePause(ws) with the 'pause' message received.
handlePause(ws) ==
    /\ IF playInterval[ws] # NULL
       THEN /\ timers' = [timers EXCEPT ![playInterval[ws]].live = FALSE]
            /\ playInterval' = [playInterval EXCEPT ![ws] = NULL]
       ELSE UNCHANGED <<timers, playInterval>>
    /\ log' = [log EXCEPT ![ws] = Append(@, [kind |-> "pause"])]

\* The server's handleSeek(ws, timestamp) with the 'seek' message received and
\* the 'seek_result' it sends.
handleSeek(ws, timestamp) ==
    /\ \E evs \in getEventsInRange(1, timestamp - SeekWindow, timestamp + SeekWindow) :
          log' = [log EXCEPT ![ws] =
                @ \o <<[kind |-> "seek", timestamp |-> timestamp],
                       [kind |-> "seek_result", timestamp |-> timestamp, events |-> evs]>>]
    /\ UNCHANGED <<timers, playInterval>>

\* The user of the viewer on connection ws leaves the timeline slider where
\* it is or drags it to t, and clicks play: { type: 'play', startTime:
\* slider.value, speed } is sent while the socket is open.
playOn(ws) ==
    /\ ~Closed(ws)
    /\ ReceivedCount(DOMAIN log) < MaxMsgs
    /\ \E speed \in SpeedOptions, t \in Times :
          /\ slider' = [slider EXCEPT ![ws] = t]
          /\ handlePlay(ws, t, speed)
    /\ response' = NoResponse
    /\ UNCHANGED <<now, session, events, file_snapshots, diffs>>
    /\ UNCHANGED <<ctmVars, tieOrder, extVars, readVars, snapshotsBefore, cliVars>>

\* The viewer's pause(): { type: 'pause' }.
pauseOn(ws) ==
    /\ ~Closed(ws)
    /\ ReceivedCount(DOMAIN log) < MaxMsgs
    /\ handlePause(ws)
    /\ response' = NoResponse
    /\ UNCHANGED <<now, session, events, file_snapshots, diffs, slider>>
    /\ UNCHANGED <<ctmVars, tieOrder, extVars, readVars, snapshotsBefore, cliVars>>

\* The viewer's seek(): { type: 'seek', timestamp: slider.value }, the slider
\* left where it is or dragged to t.
seekOn(ws) ==
    /\ ~Closed(ws)
    /\ ReceivedCount(DOMAIN log) < MaxMsgs
    /\ \E t \in Times :
          /\ slider' = [slider EXCEPT ![ws] = t]
          /\ handleSeek(ws, t)
    /\ response' = NoResponse
    /\ UNCHANGED <<now, session, events, file_snapshots, diffs>>
    /\ UNCHANGED <<ctmVars, tieOrder, extVars, readVars, snapshotsBefore, cliVars>>

\* A client of the WebSocket that is not the viewer sends { type: 'seek',
\* timestamp: FarTime }: the window of the seek then begins after the start
\* of the session.
seekBeyondOn(ws) ==
    /\ ~Closed(ws)
    /\ ReceivedCount(DOMAIN log) < MaxMsgs
    /\ handleSeek(ws, FarTime)
    /\ response' = NoResponse
    /\ UNCHANGED <<now, session, events, file_snapshots, diffs, slider>>
    /\ UNCHANGED <<ctmVars, tieOrder, extVars, readVars, snapshotsBefore, cliVars>>

\* ws.on('close'): the handler writes a line to the console and nothing else.
closeOn(ws) ==
    /\ ~Closed(ws)
    /\ log' = [log EXCEPT ![ws] = Append(@, [kind |-> "close"])]
    /\ response' = NoResponse
    /\ UNCHANGED <<now, session, events, file_snapshots, diffs,
                   timers, playInterval, slider>>
    /\ UNCHANGED <<ctmVars, tieOrder, extVars, readVars, snapshotsBefore, cliVars>>

\* wss.on('connection'): a second viewer page opens its socket.
connection ==
    /\ \E ws \in Sockets \ DOMAIN log :
          /\ log' = [w \in DOMAIN log \cup {ws} |-> IF w = ws THEN <<>> ELSE log[w]]
          /\ playInterval' = [w \in DOMAIN log \cup {ws} |->
                                 IF w = ws THEN NULL ELSE playInterval[w]]
          /\ slider' = [w \in DOMAIN log \cup {ws} |->
                           IF w = ws THEN session.start_time ELSE slider[w]]
    /\ response' = NoResponse
    /\ UNCHANGED <<now, session, events, file_snapshots, diffs, timers>>
    /\ UNCHANGED <<ctmVars, tieOrder, extVars, readVars, snapshotsBefore, cliVars>>

play == \E ws \in DOMAIN log : playOn(ws)

pause == \E ws \in DOMAIN log : pauseOn(ws)

seek == \E ws \in DOMAIN log : seekOn(ws)

close == \E ws \in DOMAIN log : closeOn(ws)

seekBeyond == \E ws \in DOMAIN log : seekBeyondOn(ws)

\* The loop guard dropped: every remaining event is sent at once.
DueAlways(event, currentTime) == TRUE

\* events[eventIndex].timestamp <= currentTime
Due(event, currentTime) == event.timestamp <= currentTime

RECURSIVE DueCount(_, _, _)
\* How many events the while loop of one tick sends, starting at eventIndex.
DueCount(evs, eventIndex, currentTime) ==
    IF eventIndex < Len(evs) /\ Due(evs[eventIndex + 1], currentTime)
    THEN 1 + DueCount(evs, eventIndex + 1, currentTime)
    ELSE 0

\* currentTime > endTime || eventIndex >= events.length
PlaybackDone(currentTime, endTime, eventIndex, length) ==
    currentTime > endTime \/ eventIndex >= length

\* The clearInterval forgotten: the timer keeps firing.
StillLiveAlways(done) == TRUE

\* clearInterval(playInterval) once the playback is done.
StillLive(done) == ~done

\* One run of the setInterval callback of timer k.
Tick(k) ==
    /\ k \in 1..Len(timers)
    /\ timers[k].live
    /\ LET T == timers[k]
           n == DueCount(T.events, T.eventIndex, T.currentTime)
           currentTime == T.currentTime + Step(T.speed)
           eventIndex == T.eventIndex + n
           done == PlaybackDone(currentTime, T.endTime, eventIndex, Len(T.events))
           sent == [i \in 1..n |-> [kind |-> "event", event |-> T.events[T.eventIndex + i],
                                    timer |-> k, at |-> T.currentTime]]
       IN  /\ timers' = [timers EXCEPT ![k].currentTime = currentTime,
                                       ![k].eventIndex = eventIndex,
                                       ![k].live = StillLive(done)]
           /\ log' = [log EXCEPT ![T.ws] =
                 @ \o sent \o (IF done THEN <<[kind |-> "playback_complete", timer |-> k]>>
                               ELSE <<>>)]
    /\ response' = NoResponse
    /\ UNCHANGED <<now, session, events, file_snapshots, diffs, playInterval, slider>>
    /\ UNCHANGED <<ctmVars, tieOrder, extVars, readVars, snapshotsBefore, cliVars>>

playTick == \E k \in 1..MaxPlays : Tick(k)

(***************************************************************************)
(* The VS Code extension, CodeTimeMachineExtension.  Its start and stop     *)
(* run the commands of cli.js with exec and go on when the command has      *)
(* ended; one command of the extension is under way at a time.              *)
(***************************************************************************)
\* config.get('maxFileSize', 100000)
maxFileSize == 100000

\* config.get('debounceMs', 500), set to one step of the clock
debounceMs == ClockStep

\* document.getText().length of the documents that are edited
DocumentLengths == {1, maxFileSize + 1}

\* The events of the editor that are recorded at once
EditorEvents == {"save", "create", "delete", "rename", "focus", "cursor"}

MaxTimeouts == 2
MaxRecords == 1

\* setupEventListeners: one more listener of every kind
setupEventListeners(x) == [x EXCEPT !.disposables = @ + 1]

\* checkRecordingStatus: the session file is there and parses
checkRecordingStatus(x) ==
    IF currentSession # NULL
    THEN setupEventListeners([x EXCEPT !.isRecording = TRUE])
    ELSE x

\* The pending timeouts of the map are cleared by disposeEventListeners.
clearTimeouts(x, ts) ==
    [k \in 1..Len(ts) |->
        IF \E filePath \in Paths : x.debounceTimers[filePath] = k
        THEN [ts[k] EXCEPT !.live = FALSE]
        ELSE ts[k]]

\* disposeEventListeners
disposeEventListeners(x) ==
    [x EXCEPT !.disposables = 0,
              !.debounceTimers = [filePath \in Paths |-> NULL]]

\* activate(): the commands are registered, checkRecordingStatus(), and
\* setupEventListeners() if this.isRecording
activate ==
    /\ ~extension.activated
    /\ LET checked == checkRecordingStatus([extension EXCEPT !.activated = TRUE])
       IN  extension' = IF checked.isRecording THEN setupEventListeners(checked)
                        ELSE checked
    /\ response' = NoResponse
    /\ UNCHANGED <<now, recVars, ctmVars, tieOrder, readVars, snapshotsBefore, cliVars,
                   timeouts, documents, console>>

\* codetimemachine.start up to exec('ctm start ...'): the command of cli.js
\* begins with its isRecording() test.
extension_startRecording ==
    /\ extension.activated /\ extension.awaits = NULL
    /\ ~extension.isRecording
    /\ Len(cmds) < MaxCommands
    /\ cmds' = Append(cmds, [kind |-> "start", session |-> NULL,
                             keep |-> FALSE, output |-> FALSE,
                             pc |-> IF currentSession # NULL THEN "refused"
                                    ELSE "createSession"])
    /\ extension' = [extension EXCEPT !.awaits = Len(cmds) + 1]
    /\ response' = NoResponse
    /\ UNCHANGED <<now, recVars, ctmVars, tieOrder, readVars, snapshotsBefore,
                   currentSession, pidFile, dbs, daemons, timeouts, documents, console>>

\* codetimemachine.stop up to exec('ctm stop')
extension_stopRecording ==
    /\ extension.activated /\ extension.awaits = NULL
    /\ extension.isRecording
    /\ Len(cmds) < MaxCommands
    /\ cmds' = Append(cmds, [kind |-> "stop", session |-> currentSession,
                             keep |-> FALSE, output |-> FALSE,
                             pc |-> IF currentSession = NULL THEN "refused"
                                    ELSE "stopDaemon"])
    /\ extension' = [extension EXCEPT !.awaits = Len(cmds) + 1]
    /\ response' = NoResponse
    /\ UNCHANGED <<now, recVars, ctmVars, tieOrder, readVars, snapshotsBefore,
                   currentSession, pidFile, dbs, daemons, timeouts, documents, console>>

\* The callback of exec: the command has ended.  After a start,
\* checkRecordingStatus(); after a stop, isRecording = false and
\* disposeEventListeners(); a command that exits with an error is reported
\* and nothing else is done.
extension_exec ==
    /\ extension.awaits # NULL
    /\ cmds[extension.awaits].pc \in {"refused", "done", "failed"}
    /\ LET c == cmds[extension.awaits]
           resumed == [extension EXCEPT !.awaits = NULL]
       IN  IF c.pc = "failed"
           THEN /\ extension' = resumed
                /\ UNCHANGED timeouts
           ELSE IF c.kind = "start"
           THEN /\ extension' = checkRecordingStatus(resumed)
                /\ UNCHANGED timeouts
           ELSE /\ extension' = disposeEventListeners([resumed EXCEPT !.isRecording = FALSE])
                /\ timeouts' = clearTimeouts(extension, timeouts)
    /\ response' = NoResponse
    /\ UNCHANGED <<now, recVars, ctmVars, tieOrder, readVars, snapshotsBefore, cliVars,
                   documents, console>>

\* A change handler that leaves the timeout of an earlier change alone.
handleDocumentChange_noClear(st, filePath) ==
    IF ~st.x.isRecording
    THEN st
    ELSE [x |-> [st.x EXCEPT !.debounceTimers[filePath] = Len(st.ts) + 1],
          version |-> st.version,
          ts |-> Append(st.ts, [filePath |-> filePath, due |-> now + debounceMs,
                                changed |-> now, version |-> st.version,
                                live |-> TRUE])]

\* handleDocumentChange of one listener, on the extension x and the timeouts
\* ts, for an event whose document.version is version
handleDocumentChange(st, filePath) ==
    IF ~st.x.isRecording
    THEN st
    ELSE LET existingTimer == st.x.debounceTimers[filePath]
             cleared == IF existingTimer # NULL
                        THEN [st.ts EXCEPT ![existingTimer].live = FALSE]
                        ELSE st.ts
         IN  [x |-> [st.x EXCEPT !.debounceTimers[filePath] = Len(st.ts) + 1],
              version |-> st.version,
              ts |-> Append(cleared, [filePath |-> filePath, due |-> now + debounceMs,
                                      changed |-> now, version |-> st.version,
                                      live |-> TRUE])]

\* The event goes to every listener that is registered.
RECURSIVE fire(_, _, _)
fire(st, filePath, n) ==
    IF n = 0 THEN st ELSE fire(handleDocumentChange(st, filePath), filePath, n - 1)

\* The user edits the document filePath: onDidChangeTextDocument
onDidChangeTextDocument ==
    \E filePath \in Paths, length \in DocumentLengths :
        LET st == fire([x |-> extension, ts |-> timeouts,
                        version |-> documents[filePath].version + 1],
                       filePath, extension.disposables)
        IN  /\ extension.activated
            /\ Len(st.ts) <= MaxTimeouts * 2
            /\ Len(timeouts) < MaxTimeouts
            /\ documents[filePath].version <= MaxTimeouts
            /\ documents' = [documents EXCEPT ![filePath] =
                                 [length |-> length, version |-> @.version + 1]]
            /\ extension' = st.x
            /\ timeouts' = st.ts
            /\ response' = NoResponse
            /\ UNCHANGED <<now, recVars, ctmVars, tieOrder, readVars, snapshotsBefore, cliVars,
                           console>>

\* recordDocumentEvent: the line of console.log, none for a large document
recordDocumentEvent(filePath, action) ==
    IF documents[filePath].length > maxFileSize
    THEN <<>>
    ELSE <<[action |-> action, file |-> filePath, at |-> now]>>

\* The callback of the timeout k of handleDocumentChange
debounceTimeout(k) ==
    /\ timeouts[k].live
    /\ now >= timeouts[k].due
    /\ Len(console) < MaxRecords
    /\ timeouts' = [timeouts EXCEPT ![k].live = FALSE]
    /\ console' = console \o recordDocumentEvent(timeouts[k].filePath, "change")
    /\ extension' = [extension EXCEPT !.debounceTimers[timeouts[k].filePath] = NULL]
    /\ response' = NoResponse
    /\ UNCHANGED <<now, recVars, ctmVars, tieOrder, readVars, snapshotsBefore, cliVars,
                   documents>>

setTimeout == \E k \in 1..Len(timeouts) : debounceTimeout(k)

\* What one listener of the event writes: handleDocumentSave,
\* handleFilesCreated, handleFilesDeleted, handleFilesRenamed,
\* handleActiveEditorChange, handleSelectionChange
handleEditorEvent(action, filePath) ==
    IF ~extension.isRecording THEN <<>>
    ELSE IF action = "save" THEN recordDocumentEvent(filePath, action)
    ELSE <<[action |-> action, file |-> filePath, at |-> now]>>

\* The lines of every listener, one listener after the other
RECURSIVE Repeated(_, _)
Repeated(lines, n) == IF n = 0 THEN <<>> ELSE lines \o Repeated(lines, n - 1)

\* An event of the editor other than a change of a document, about filePath
onEditorEvent ==
    \E action \in EditorEvents, filePath \in Paths :
        /\ extension.activated
        /\ Len(console) < MaxRecords
        /\ console' = console \o Repeated(handleEditorEvent(action, filePath),
                                           extension.disposables)
        /\ console' # console
        /\ response' = NoResponse
        /\ UNCHANGED <<now, recVars, ctmVars, tieOrder, readVars, snapshotsBefore, cliVars,
                       extension, timeouts, documents>>

\* A recording has just been started: the session exists and is open, nothing
\* is stored yet, one viewer is connected; in ctm.js the session file has been
\* created, the daemon has loaded it and runs, and current.json exists.
Init ==
    /\ now = 1000
    /\ session = [id |-> 1, start_time |-> 1000, end_time |-> NULL]
    /\ events = <<>>
    /\ file_snapshots = <<>>
    /\ diffs = <<>>
    /\ timers = <<>>
    /\ playInterval = [ws \in Conns |-> NULL]
    /\ slider = [ws \in Conns |-> 1000]
    /\ log = [ws \in Conns |-> <<>>]
    /\ response = NoResponse
    /\ sessionFile = createSession
    /\ daemonData = createSession
    /\ isRunning = TRUE
    /\ current = TRUE
    /\ stopData = <<>>
    /\ fsFiles = [relativePath \in Paths |-> <<>>]
    /\ watchedFiles = [relativePath \in Paths |-> <<>>]
    /\ ops = [relativePath \in Paths |-> 0]
    /\ snapshotsBefore = <<>>
    /\ seen = [api |-> {}, web |-> {}]
    /\ webData = <<>>
    /\ tieOrder \in {"asc", "desc"}
    /\ currentSession = 1
    /\ pidFile = 1
    /\ dbs = <<[exists |-> TRUE, sessions |-> 1, end_time |-> NULL]>>
    /\ daemons = <<[session |-> 1, state |-> "live"]>>
    /\ cmds = <<>>
    /\ extension = [activated |-> FALSE, isRecording |-> FALSE, disposables |-> 0,
                    debounceTimers |-> [filePath \in Paths |-> NULL], awaits |-> NULL]
    /\ timeouts = <<>>
    /\ documents = [filePath \in Paths |-> [length |-> 1, version |-> 1]]
    /\ console = <<>>

\* The event log: the recorder appends, the CLI ends the session, /api/events reads.
Next ==
    \/ Advance
    \/ handleFileChange
    \/ handleFileAdd
    \/ handleFileDelete
    \/ endSession
    \/ ApiEvents

Spec == Init /\ [][Next]_vars

\* Snapshots and diffs: the recorder and addDiff append, /api/file reads.
FileNext ==
    \/ Advance
    \/ handleFileChange
    \/ AddDiff
    \/ ApiFile

FileSpec == Init /\ [][FileNext]_vars

\* Playback: the recorder appends, the CLI ends the session, viewers play.
PlayNext ==
    \/ Advance
    \/ handleFileChange
    \/ endSession
    \/ play
    \/ pause
    \/ seek
    \/ playTick

PlaySpec == Init /\ [][PlayNext]_vars

\* Playbacks and pauses only: a seek changes neither a timer nor ws.playInterval.
RunNext ==
    \/ Advance
    \/ handleFileChange
    \/ endSession
    \/ play
    \/ pause
    \/ playTick

\* A live interval timer keeps firing.
PlayLive == Init /\ [][RunNext]_vars /\ \A k \in 1..MaxPlays : WF_vars(Tick(k))

\* Disconnection: the viewer plays and closes its socket.
CloseNext ==
    \/ Advance
    \/ handleFileChange
    \/ play
    \/ close
    \/ playTick

CloseSpec == Init /\ [][CloseNext]_vars

\* Two connections at one reading of the clock: each viewer plays, pauses,
\* seeks and disconnects.
ConnNext ==
    \/ handleFileChange
    \/ connection
    \/ play
    \/ pause
    \/ seek
    \/ close
    \/ playTick

ConnSpec == Init /\ [][ConnNext]_vars

\* Content queries of both programs: the recorders append, the routes read.
ContentNext ==
    \/ Advance
    \/ handleFileChange
    \/ checkFile
    \/ ApiFile
    \/ ApiFileContent
    \/ WebFileContent

ContentSpec == Init /\ [][ContentNext]_vars

\* Captures around the size cap, by both recorders.
SizeNext ==
    \/ Advance
    \/ handleFileChange
    \/ handleLargeFileChange
    \/ checkFile
    \/ checkLargeFile

SizeSpec == Init /\ [][SizeNext]_vars

\* The end of a recording: the recorders append, the CLI of the SQLite store
\* ends the session, ctm stop and the daemon's signal handler end the session
\* of ctm.js.
EndNext ==
    \/ Advance
    \/ handleFileChange
    \/ endSession
    \/ checkFile
    \/ FileDaemon_stop
    \/ stopRecording_load
    \/ stopRecording_save

EndSpec == Init /\ [][EndNext]_vars

\* The commands of cli.js: starts and stops of one user, interleaved.
CliNext ==
    \/ Advance
    \/ startRecording_isRecording
    \/ startRecording_step
    \/ stopRecording_isRecording
    \/ stopRecording_step
    \/ daemonExit

CliSpec == Init /\ [][CliNext]_vars

\* The readers of the event log while both recorders append.
ReadNext ==
    \/ Advance
    \/ handleFileChange
    \/ ApiEvents
    \/ checkFile
    \/ WebServer
    \/ WebEvents

ReadSpec == Init /\ [][ReadNext]_vars

\* Seeks while the recorder appends and a playback runs.
SeekNext ==
    \/ Advance
    \/ handleFileChange
    \/ play
    \/ seek
    \/ seekBeyond
    \/ playTick

SeekSpec == Init /\ [][SeekNext]_vars

\* The commands of cli.js and ctm.js, run one after the other.
CommandNext ==
    \/ Advance
    \/ nextCommand
    \/ startRecording_step
    \/ stopRecording_step
    \/ ctm_startRecording_step
    \/ ctm_stopRecording_step
    \/ daemonExit
    \/ FileDaemon_stop

CommandSpec == Init /\ [][CommandNext]_vars

\* The commands of cli.js and ctm.js, each started at any time.
ShellNext ==
    \/ startRecording_isRecording
    \/ startRecording_step
    \/ stopRecording_isRecording
    \/ stopRecording_step
    \/ ctm_startRecording_getCurrentSession
    \/ ctm_startRecording_step
    \/ ctm_stopRecording_getCurrentSession
    \/ ctm_stopRecording_step
    \/ daemonExit
    \/ FileDaemon_stop

ShellSpec == Init /\ [][ShellNext]_vars

\* The VS Code extension, started in the middle of a recording.
ExtensionNext ==
    \/ Advance
    \/ activate
    \/ extension_startRecording
    \/ extension_stopRecording
    \/ extension_exec
    \/ startRecording_step
    \/ stopRecording_step
    \/ onDidChangeTextDocument
    \/ setTimeout
    \/ onEditorEvent

ExtensionSpec == Init /\ [][ExtensionNext]_vars

\* The recorder polls a project whose files are created, edited and deleted.
PollNext ==
    \/ Advance
    \/ writeProjectFile
    \/ restoreProjectFile
    \/ deleteProjectFile
    \/ scanAndWatch
    \/ pollFile

PollSpec == Init /\ [][PollNext]_vars

\* Files are recorded and deleted within one tick of the clock, and their
\* content is asked for at that time and later.
DeleteNext ==
    \/ handleFileChange
    \/ handleFileDelete
    \/ ApiFile
    \/ ApiFileContent
    \/ writeProjectFile
    \/ deleteProjectFile
    \/ scanAndWatch
    \/ pollFile
    \/ WebFileContent

DeleteSpec == Init /\ [][DeleteNext]_vars

\* The same, with the daemon stopped at any time.
HaltNext ==
    \/ Advance
    \/ writeProjectFile
    \/ restoreProjectFile
    \/ deleteProjectFile
    \/ scanAndWatch
    \/ pollFile
    \/ FileDaemon_stop

HaltSpec == Init /\ [][HaltNext]_vars

\* The same, with a session file that cannot always be written.
FailNext ==
    \/ Advance
    \/ writeProjectFile
    \/ restoreProjectFile
    \/ deleteProjectFile
    \/ scanAndWatch
    \/ pollFile
    \/ scanAndWatch_saveThrows
    \/ pollFile_saveThrows

FailSpec == Init /\ [][FailNext]_vars

(***************************************************************************)
(* The event log.                                                          *)
(***************************************************************************)

\* C1: the sequence numbers stored with the events of a session are strictly
\* increasing in append order, with no gaps.
C1_SequenceGapFree ==
    \A i \in 1..Len(events) - 1 : events[i + 1].sequence = events[i].sequence + 1

\* Append order is rowid order.
AppendOrderOnTies(rows) ==
    \A i, j \in 1..Len(rows) :
        (i < j /\ rows[i].timestamp = rows[j].timestamp) => rows[i].id < rows[j].id

\* C2: a range query returns the events sorted by timestamp, and events with
\* the same timestamp in the order in which they were appended.
C2_RangeKeepsAppendOrder ==
    response.route = "events" =>
        /\ IsOrderedByTimestamp(response.body)
        /\ AppendOrderOnTies(response.body)

(***************************************************************************)
(* Reconstruction.                                                         *)
(***************************************************************************)
RECURSIVE ApplyPatches(_, _)
\* What applying the patches +"y", +"z", ... in order to a content gives.
ApplyPatches(content, patches) ==
    IF patches = <<>> THEN content
    ELSE ApplyPatches(content \o Head(patches).diff_data, Tail(patches))

SnapshotsOf(filePath) == SelectSeq(file_snapshots, LAMBDA s : s.file_path = filePath)
DiffsOf(filePath) == SelectSeq(diffs, LAMBDA d : d.file_path = filePath)

\* One checkpoint C at t0, then diffs D1..Dn at t1 < ... < tn, all after t0.
RoundTripCase(filePath) ==
    /\ Len(SnapshotsOf(filePath)) = 1
    /\ \A i \in 1..Len(DiffsOf(filePath)) :
          /\ DiffsOf(filePath)[i].timestamp > SnapshotsOf(filePath)[1].timestamp
          /\ \A j \in 1..Len(DiffsOf(filePath)) :
                i < j => DiffsOf(filePath)[i].timestamp < DiffsOf(filePath)[j].timestamp

\* C3: in the round-trip case the reconstructed content at t is C with every
\* diff of timestamp <= t applied in order.
C3_ReconstructionAppliesDiffs ==
    (/\ response.route = "file"
     /\ RoundTripCase(response.path)
     /\ SnapshotsOf(response.path)[1].timestamp <= response.timestamp)
    => /\ response.body # <<>>
       /\ response.body[1].reconstructedContent =
             ApplyPatches(SnapshotsOf(response.path)[1].content,
                          SelectSeq(DiffsOf(response.path),
                                    LAMBDA d : d.timestamp <= response.timestamp))

(***************************************************************************)
(* Playback.                                                               *)
(***************************************************************************)
Positions(ws) == 1..Len(log[ws])

IsMessage(m) == m.kind \in {"play", "pause", "seek"}

Completed(k) ==
    /\ k \in 1..Len(timers)
    /\ \E i \in Positions(timers[k].ws) :
          /\ log[timers[k].ws][i].kind = "playback_complete"
          /\ log[timers[k].ws][i].timer = k

\* The timer was cleared by handlePause before its playback was complete.
Paused(k) ==
    /\ k \in 1..Len(timers)
    /\ ~timers[k].live
    /\ ~Completed(k)

SentBy(k) ==
    {log[timers[k].ws][i].event :
        i \in {p \in Positions(timers[k].ws) : /\ log[timers[k].ws][p].kind = "event"
                                                /\ log[timers[k].ws][p].timer = k}}

\* C4: a playback that has sent playback_complete has sent every event of
\* [startTime, session end] before it.
C4_NoEventSkipped ==
    \A k \in 1..Len(timers) : Completed(k) => Range(timers[k].events) \subseteq SentBy(k)

\* C5: within one handlePlay run the events are sent in (timestamp, sequence)
\* order, each at most once, and only when currentTime has reached the
\* event's timestamp.
C5_OrderedOnceWhenDue ==
    \A ws \in Conns : \A i, j \in Positions(ws) :
        (log[ws][i].kind = "event" /\ log[ws][j].kind = "event") =>
            /\ log[ws][i].event.timestamp <= log[ws][i].at
            /\ (i < j /\ log[ws][i].timer = log[ws][j].timer) =>
                  /\ OrderKeyLeq(log[ws][i].event, log[ws][j].event)
                  /\ log[ws][i].event.id # log[ws][j].event.id

\* A run has sent two events with different timestamps, the second at a later
\* tick than the first.
C5_Witness ==
    \E ws \in Conns : \E i, j \in Positions(ws) :
        /\ i < j
        /\ log[ws][i].kind = "event" /\ log[ws][j].kind = "event"
        /\ log[ws][i].timer = log[ws][j].timer
        /\ log[ws][i].event.timestamp < log[ws][j].event.timestamp
        /\ log[ws][i].at < log[ws][j].at

\* A playback sends playback_complete at most once and no event after it.
CompleteOnceAndLast ==
    \A ws \in Conns : \A i, j \in Positions(ws) :
        (/\ i < j
         /\ log[ws][i].kind = "playback_complete"
         /\ log[ws][j].kind \in {"event", "playback_complete"})
        => log[ws][i].timer # log[ws][j].timer

EventEntries(ws) == SelectSeq(log[ws], LAMBDA m : m.kind = "event")

\* C7: play, a pause that stops the playback before it is complete, then play
\* again with the slider untouched (the viewer's resume) continues from the
\* paused cursor: over the whole run no event is sent twice.
C7_ResumeNoDuplicate ==
    \A ws \in Conns :
        (/\ Len(Received(ws)) = 3
         /\ Received(ws)[1].kind = "play"
         /\ Received(ws)[2].kind = "pause"
         /\ Paused(Received(ws)[1].timer)
         /\ Received(ws)[3].kind = "play"
         /\ Received(ws)[3].startTime = Received(ws)[1].startTime)
        => \A i, j \in 1..Len(EventEntries(ws)) :
              i # j => EventEntries(ws)[i].event.id # EventEntries(ws)[j].event.id

\* C8: after a pause nothing is sent on the connection until a later play.
C8_NothingSentAfterPause ==
    \A ws \in Conns : \A i, j \in Positions(ws) :
        (/\ i < j
         /\ log[ws][i].kind = "pause"
         /\ log[ws][j].kind \in {"event", "playback_complete"})
        => \E m \in Positions(ws) : i < m /\ m < j /\ log[ws][m].kind = "play"

\* C9: after a seek_result no event of a play received before the seek is sent.
C9_SeekCancelsPlayback ==
    \A ws \in Conns : \A i, j \in Positions(ws) :
        (/\ i < j
         /\ log[ws][i].kind = "seek_result"
         /\ log[ws][j].kind = "event")
        => \E m \in Positions(ws) :
              /\ i < m
              /\ log[ws][m].kind = "play"
              /\ log[ws][m].timer = log[ws][j].timer

\* C10: after seek(t) directly followed by play from t, the events sent on the
\* connection (until its next message) have timestamp >= t.
C10_OnlyEventsFromSeekTarget ==
    \A ws \in Conns : \A i, j \in Positions(ws) :
        (/\ i + 2 < j
         /\ log[ws][i].kind = "seek"
         /\ log[ws][i + 2].kind = "play"
         /\ log[ws][i + 2].startTime = log[ws][i].timestamp
         /\ log[ws][j].kind = "event"
         /\ \A m \in Positions(ws) : (i + 2 < m /\ m < j) => ~IsMessage(log[ws][m]))
        => log[ws][j].event.timestamp >= log[ws][i].timestamp

(***************************************************************************)
(* Disconnection and several connections.                                  *)
(***************************************************************************)

\* C11: once the client has disconnected, the interval timers of its
\* playbacks are released and nothing is sent after the close.
C11_CloseStopsPlayback ==
    \A ws \in DOMAIN log : \A i \in Positions(ws) :
        log[ws][i].kind = "close" =>
            /\ i = Len(log[ws])
            /\ \A k \in 1..Len(timers) : timers[k].ws = ws => ~timers[k].live

\* What belongs to the connections other than ws is left as it is.
OthersUntouched(ws) ==
    /\ DOMAIN log' = DOMAIN log
    /\ \A o \in DOMAIN log \ {ws} :
          /\ log'[o] = log[o]
          /\ playInterval'[o] = playInterval[o]
          /\ slider'[o] = slider[o]
    /\ \A k \in 1..Len(timers) : timers[k].ws # ws => timers'[k] = timers[k]

\* C12: a play, pause, seek or disconnect on one connection changes neither
\* the log, the slider, ws.playInterval nor a timer of another connection, a
\* tick changes only its own timer and the log of its own connection, and
\* none of them writes to the store.
C12_ConnectionsIndependent ==
    [][/\ \A ws \in DOMAIN log :
             (playOn(ws) \/ pauseOn(ws) \/ seekOn(ws) \/ closeOn(ws))
             => (OthersUntouched(ws) /\ UNCHANGED storeVars)
       /\ \A k \in 1..Len(timers) :
             Tick(k) => (/\ OthersUntouched(timers[k].ws)
                         /\ \A j \in 1..Len(timers) : j # k => timers'[j] = timers[j]
                         /\ UNCHANGED storeVars)]_vars

\* One connection has paused its playback and closed; the playback of the
\* other, started before that pause, went on to send its events and complete.
C12_Witness ==
    \E k1, k2 \in 1..Len(timers) :
        /\ timers[k1].ws # timers[k2].ws
        /\ k2 < k1
        /\ Paused(k1)
        /\ Closed(timers[k1].ws)
        /\ Completed(k2)
        /\ SentBy(k2) # {}

(***************************************************************************)
(* Content queries.                                                        *)
(***************************************************************************)
\* snap is one of S with the greatest timestamp.
IsLatest(snap, S) == snap \in S /\ \A o \in S : o.timestamp <= snap.timestamp

\* The result is none exactly when S is empty, and else a latest one of S.
NoneOrLatest(result, S) ==
    /\ result = <<>> <=> S = {}
    /\ result # <<>> => IsLatest(result[1], S)

\* The stored snapshots of the path that are not later than t.
AtOrBefore(snapshots, t) == {s \in Range(snapshots) : s.timestamp <= t}

C15_NoDiffLeftUnapplied ==
    (response.route = "file" /\ response.body # <<>>) =>
        response.body[1].reconstructedContent =
            ApplyPatches(response.body[1].snapshot.content, response.body[1].diffs)

\* C16: every stored diff has an anchor: a snapshot of the same session and
\* path that was stored before it (an addDiff without one stores nothing).
C16_EveryDiffHasAnchor ==
    \A i \in 1..Len(diffs) :
        \E j \in 1..Len(file_snapshots) :
            /\ file_snapshots[j].session_id = diffs[i].session_id
            /\ file_snapshots[j].file_path = diffs[i].file_path
            /\ file_snapshots[j].timestamp <= diffs[i].timestamp

(***************************************************************************)
(* What the recorders store.                                               *)
(***************************************************************************)
\* C17: a captured content is stored as a checkpoint exactly when its size
\* does not exceed SizeCap: no stored snapshot is larger, and every recorded
\* change of a content of at most SizeCap characters has its snapshot, in the
\* SQLite store of daemon.js and in the session file of ctm.js.
C17_StoredExactlyUpToCap ==
    /\ \A j \in 1..Len(file_snapshots) : file_snapshots[j].size <= SizeCap
    /\ \A i \in 1..Len(events) :
          (events[i].data.action \in {"change", "add"} /\ events[i].data.size <= SizeCap)
          => \E j \in 1..Len(file_snapshots) :
                /\ file_snapshots[j].file_path = events[i].source
                /\ file_snapshots[j].timestamp = events[i].timestamp
                /\ file_snapshots[j].size = events[i].data.size
    /\ \A filePath \in Paths : \A j \in 1..Len(sessionFile.files[filePath]) :
          sessionFile.files[filePath][j].size <= SizeCap
    /\ \A i \in 1..Len(sessionFile.events) :
          (sessionFile.events[i].type = "file_change"
           /\ sessionFile.events[i].data.size <= SizeCap)
          => \E j \in 1..Len(sessionFile.files[sessionFile.events[i].source]) :
                LET s == sessionFile.files[sessionFile.events[i].source][j]
                IN  /\ s.timestamp = sessionFile.events[i].timestamp
                    /\ s.size = sessionFile.events[i].data.size

\* C18: every snapshot stored by FileDatabase.addFileSnapshot holds the whole
\* of the content that was captured, all `size` characters of the text read.
C18_SnapshotHoldsWholeCapture ==
    \A filePath \in Paths : \A j \in 1..Len(sessionFile.files[filePath]) :
        LET s == sessionFile.files[filePath][j]
        IN  /\ s.content = readFileSync(s.content.text)
            /\ s.content.length = s.size

(***************************************************************************)
(* The end of a session.                                                   *)
(***************************************************************************)
\* C19: once the end time of a session is set, no step appends an event or a
\* snapshot to it: the stored events and snapshots stay as they are, in the
\* SQLite store and in the session file of ctm.js.
C19_NoAppendAfterEnd ==
    [][/\ session.end_time # NULL => UNCHANGED <<events, file_snapshots>>
       /\ sessionFile.session.endTime # NULL =>
             /\ sessionFile'.events = sessionFile.events
             /\ sessionFile'.files = sessionFile.files]_vars

\* C20: once the stored end time of the session of ctm.js is set, no step
\* changes it.
C20_EndTimeSetOnce ==
    [][sessionFile.session.endTime # NULL =>
          sessionFile'.session.endTime = sessionFile.session.endTime]_vars

(***************************************************************************)
(* The commands.                                                           *)
(***************************************************************************)
\* The session databases whose session has no end time.
OpenSessions ==
    {i \in 1..Len(dbs) : dbs[i].exists /\ dbs[i].sessions > 0 /\ dbs[i].end_time = NULL}

\* The daemons that have not been sent SIGTERM: they record.
LiveDaemons == {d \in 1..Len(daemons) : daemons[d].state = "live"}

\* C21: at most one session is open at a time, and at most one recorder
\* daemon is live, whatever starts and stops were run and however their
\* steps interleaved.
C21_OneOpenSession ==
    /\ Cardinality(OpenSessions) <= 1
    /\ Cardinality(LiveDaemons) <= 1

RECURSIVE IsSubsequence(_, _)
\* The elements of s are in t, in the same relative order.
IsSubsequence(s, t) ==
    IF s = <<>> THEN TRUE
    ELSE IF t = <<>> THEN FALSE
    ELSE IF Head(s) = Head(t) THEN IsSubsequence(Tail(s), Tail(t))
    ELSE IsSubsequence(s, Tail(t))

\* C22: the event log in the session file is append-only: every event in the
\* file is in every later content of the file, unchanged and in the same
\* relative order.
C22_PersistedLogAppendOnly ==
    [][IsSubsequence(sessionFile.events, sessionFile'.events)]_vars

(***************************************************************************)
(* The recorder of ctm.js over the files of a project.                     *)
(***************************************************************************)
NoneSaved == [i \in 1..MaxSaves |-> FALSE]

\* C23: an append of an event or snapshot whose save() throws leaves the
\* store as it was before the call: after a turn of the daemon in which every
\* save() threw, the in-memory events and the snapshot lists of all paths
\* (with them the change counts) are what they were before the turn.
C23_FailedAppendLeavesStore ==
    [][(ScanAndWatch(NoneSaved) \/ \E relativePath \in Paths : PollFile(relativePath, NoneSaved))
       => /\ daemonData'.events = daemonData.events
          /\ daemonData'.files = daemonData.files]_vars

\* data.files[filePath].snapshots of the session file
FileSnapshotsOf(filePath) == sessionFile.files[filePath]

Returned(sofar, answer) ==
    \A s \in sofar :
        (answer.start <= s.event.timestamp /\ s.event.timestamp <= answer.end)
            => \E i \in 1..Len(answer.body) : answer.body[i] = s.event

\* C25: a reader's view of the log never retreats: an event returned by one
\* /api/events query of a reader is returned by every later query of that
\* reader whose range covers it, while the recorder keeps appending.
C25_ReaderNeverRetreats ==
    [][/\ response'.route = "events" => Returned(seen.api, response')
       /\ response'.route = "ctm-events" => Returned(seen.web, response')]_vars

\* The playback server's reader gets again an event it first got before the
\* recorder's last append; the WebServer's reader has got an event, and the
\* recorder of ctm.js has appended since the WebServer loaded the file.
C25_Witness ==
    /\ response.route = "events"
    /\ \E s \in seen.api :
          /\ s.rows < Len(events)
          /\ \E i \in 1..Len(response.body) : response.body[i] = s.event
    /\ seen.web # {}
    /\ Len(sessionFile.events) > Len(webData[1].events)

(***************************************************************************)
(* Seeks.                                                                  *)
(***************************************************************************)
\* The messages a step appends to the log of ws
Added(ws) == {i \in 1..Len(log'[ws]) : i > Len(log[ws])}

\* C26: a seek whose timestamp lies outside [start time, end time] of the
\* session is rejected or clamped into the bounds: on a session that has
\* ended, no seek_result is sent for a timestamp outside the bounds.
C26_SeekWithinSessionBounds ==
    [][\A ws \in DOMAIN log :
          (session.end_time # NULL /\ ws \in DOMAIN log')
              => \A i \in Added(ws) :
                    log'[ws][i].kind = "seek_result"
                        => /\ session.start_time <= log'[ws][i].timestamp
                           /\ log'[ws][i].timestamp <= session.end_time]_vars

(***************************************************************************)
(* The polling recorder and the operations on the project.                 *)
(***************************************************************************)
\* The events of the session file about relativePath
RecordedFor(relativePath) ==
    SelectSeq(sessionFile.events,
              LAMBDA e : e.source = relativePath /\ e.type \in {"file_change", "file_delete"})

\* The recorder has caught up with the project: no scan would start a watch
\* and no check of a watch would find a difference.
Settled ==
    /\ isRunning
    /\ \A relativePath \in Paths :
          IF fsFiles[relativePath] = <<>>
          THEN watchedFiles[relativePath] = <<>>
          ELSE /\ watchedFiles[relativePath] # <<>>
               /\ watchedFiles[relativePath][1].lastModified = fsFiles[relativePath][1].mtime
               /\ watchedFiles[relativePath][1].lastSize =
                      contentLength(fsFiles[relativePath][1].text)

\* C27: while the FileDaemon is recording, every create, every edit and
\* every delete of a file of the project produces a recorded event: once the
\* polls and the rescan have caught up, a path has at least as many recorded
\* events as operations were made on it.
C27_EveryOperationRecorded ==
    Settled => \A relativePath \in Paths :
                  Len(RecordedFor(relativePath)) >= ops[relativePath]

(***************************************************************************)
(* The stop command of cli.js and the temporary database.                  *)
(***************************************************************************)
\* C28: when a stop command has completed, the temporary database of its
\* session is there if --keep was given and is gone if --keep was not given,
\* with or without --output.
C28_KeepDecidesRemoval ==
    [][\A c \in 1..Len(cmds) :
          (stopRecording_cleanUp(c) /\ cmds'[c].pc = "done")
              => (dbs'[cmds[c].session].exists <=> cmds[c].keep)]_vars

(***************************************************************************)
(* Snapshots and diffs with equal timestamps.                              *)
(***************************************************************************)
\* The snapshots, in append order, that have the greatest timestamp <= t
TiedLatest(snapshots, t) ==
    SelectSeq(snapshots,
              LAMBDA s : s.timestamp <= t /\ \A o \in AtOrBefore(snapshots, t) :
                                                o.timestamp <= s.timestamp)

\* base is the one of them that was appended last.
IsLastAppended(base, snapshots, t) ==
    base = TiedLatest(snapshots, t)[Len(TiedLatest(snapshots, t))]

\* C29: when several snapshots of a path share the greatest timestamp <= t,
\* the content query for (path, t) uses the one appended last as its base:
\* getFileStateAtTime behind /api/file, /api/file-content/:timestamp, and
\* /api/file-content of ctm.js.
C29_LastAppendedOfTies ==
    /\ (response.route = "file" /\ response.body # <<>>) =>
          IsLastAppended(response.body[1].snapshot,
                         SnapshotsOf(response.path), response.timestamp)
    /\ (response.route = "file-content" /\ response.body # <<>>) =>
          IsLastAppended(response.body[1],
                         SnapshotsOf(response.path), response.timestamp)
    /\ (response.route = "ctm-file-content" /\ response.body # <<>>) =>
          IsLastAppended(response.body[1],
                         sessionFile.files[response.path], response.timestamp)

\* The diffs of the path that were appended after the checkpoint base and
\* have timestamp <= t, in append order
DiffsSince(base, filePath, t) ==
    SelectSeq(diffs, LAMBDA d : /\ d.session_id = base.session_id
                                /\ d.file_path = filePath
                                /\ snapshotsBefore[d.id] >= base.id
                                /\ d.timestamp <= t)

\* C30: the diffs selected by getFileStateAtTime(path, t) are exactly the
\* diffs of the path that were appended after the base checkpoint and have
\* timestamp <= t, in append order, a diff with the checkpoint's own
\* timestamp that was appended after it included.
C30_DiffsSinceCheckpoint ==
    (response.route = "file" /\ response.body # <<>>) =>
        response.body[1].diffs =
            DiffsSince(response.body[1].snapshot, response.path, response.timestamp)

(***************************************************************************)
(* The frame of a seek.                                                    *)
(***************************************************************************)
\* The events of the store with a timestamp in [t - SeekWindow, t + SeekWindow]
InWindow(t) ==
    {e \in Range(events) : t - SeekWindow <= e.timestamp /\ e.timestamp <= t + SeekWindow}

\* C31: handleSeek(t) replies with exactly the events whose timestamp lies
\* in [t - 1000, t + 1000], each once, ordered by (timestamp, sequence), and
\* the step starts no playback timer and changes no stored event or snapshot.
C31_SeekFrame ==
    [][\A ws \in DOMAIN log :
          \A i \in Added(ws) :
              log'[ws][i].kind = "seek_result"
                  => /\ Range(log'[ws][i].events) = InWindow(log'[ws][i].timestamp)
                     /\ Len(log'[ws][i].events) = Cardinality(InWindow(log'[ws][i].timestamp))
                     /\ IsOrdered(log'[ws][i].events)
                     /\ UNCHANGED <<timers, playInterval, events, file_snapshots>>]_vars

\* A seek was answered with one of the two stored events, the other lying
\* outside its window, while a playback timer of the connection was live.
C31_Witness ==
    \E ws \in DOMAIN log :
        /\ playInterval[ws] # NULL
        /\ Len(events) = 2
        /\ log[ws] # <<>>
        /\ log[ws][Len(log[ws])].kind = "seek_result"
        /\ Len(log[ws][Len(log[ws])].events) = 1

(***************************************************************************)
(* One polling check.                                                      *)
(***************************************************************************)
\* How many file_change events about relativePath the data d holds
ChangesIn(d, relativePath) ==
    Len(SelectSeq(d.events, LAMBDA e : e.source = relativePath /\ e.type = "file_change"))

\* How many of them a turn that ends in st has recorded
ChangesBy(st, relativePath) == ChangesIn(st.data, relativePath) - ChangesIn(daemonData, relativePath)

\* The (mtime, size) of the file differs from the pair of the last check.
PairDiffers(relativePath) ==
    \/ fsFiles[relativePath][1].mtime # watchedFiles[relativePath][1].lastModified
    \/ contentLength(fsFiles[relativePath][1].text) # watchedFiles[relativePath][1].lastSize

\* C32: a polling check of a watched file records one change event when the
\* (mtime, size) of the file differs from the pair of the previous check and
\* none when it does not, and the first check of a file always records one.
C32_CheckRecordsOnDifference ==
    isRunning =>
        \A relativePath \in Paths :
            /\ (watchedFiles[relativePath] # <<>> /\ fsFiles[relativePath] # <<>>) =>
                  ChangesBy(checkFile_try(TurnStart, relativePath, AllSaved), relativePath)
                      = IF PairDiffers(relativePath) THEN 1 ELSE 0
            /\ (watchedFiles[relativePath] = <<>> /\ fsFiles[relativePath] # <<>>) =>
                  ChangesBy(watchFile(TurnStart, relativePath, AllSaved), relativePath) = 1
\* The command the step issues
Issued == IF Len(cmds') > Len(cmds) THEN {Len(cmds')} ELSE {}

\* The files and processes of cli.js; those of ctm.js
cliFiles == <<currentSession, pidFile, dbs, daemons>>
ctmFiles == <<current, sessionFile, daemonData, isRunning>>

LiveTimers(ws) == {k \in 1..Len(timers) : timers[k].ws = ws /\ timers[k].live}

\* C34: at any time at most one playback interval timer is live per
\* connection, and ws.playInterval refers to it.
C34_OneLiveTimerPerConnection ==
    \A ws \in DOMAIN log :
        /\ Cardinality(LiveTimers(ws)) <= 1
        /\ \A k \in LiveTimers(ws) : playInterval[ws] = k

\* A stop command stopped at an exception, or left before its end.
StopFailed == \E c \in 1..Len(cmds) : cmds[c].kind \in {"stop", "ctm stop"} /\ cmds[c].pc = "failed"

\* C35: with the commands run one after the other, whether they end or fail,
\* the daemon PID file exists only while the current-session file of the
\* program whose start command wrote it exists.
C35_PidFileOnlyWithCurrentSession ==
    pidFile # NULL =>
        IF pidFile = FileDaemonPid THEN current ELSE currentSession # NULL

\* A stop command has failed part-way and a later start has written the PID
\* file again.
C35_Witness ==
    /\ StopFailed
    /\ \E c \in 1..Len(cmds) : cmds[c].kind \in {"start", "ctm start"} /\ cmds[c].pc = "done"
    /\ pidFile # NULL

\* C36: once FileDaemon.stop() has set isRunning to false, no step appends an
\* event or a snapshot, in the daemon's data or in the session file.
C36_NothingAppendedAfterStop ==
    [][~isRunning =>
          /\ daemonData'.events = daemonData.events
          /\ daemonData'.files = daemonData.files
          /\ sessionFile'.events = sessionFile.events
          /\ sessionFile'.files = sessionFile.files]_vars

\* The daemon was stopped with a file under watch recorded, and a file of the
\* project was written after the stop.
C36_Witness ==
    /\ ~isRunning
    /\ daemonData.session.endTime # NULL
    /\ daemonData.events # <<>>
    /\ \E relativePath \in Paths :
          /\ fsFiles[relativePath] # <<>>
          /\ fsFiles[relativePath][1].mtime > daemonData.session.endTime

\* How many file_delete events about relativePath the data d holds
DeletesIn(d, relativePath) ==
    Len(SelectSeq(d.events, LAMBDA e : e.source = relativePath /\ e.type = "file_delete"))

\* How many of them a turn that ends in st has recorded
DeletesBy(st, relativePath) == DeletesIn(st.data, relativePath) - DeletesIn(daemonData, relativePath)

\* C37: the check of a watched file that has disappeared records exactly one
\* file_delete event and ends the watch of the path; the check of a file that
\* exists, and the first check of a new watch, record no file_delete.
C37_OneDeletePerDisappearance ==
    isRunning =>
        \A relativePath \in Paths :
            /\ (watchedFiles[relativePath] # <<>> /\ fsFiles[relativePath] = <<>>) =>
                  /\ DeletesBy(checkFile_try(TurnStart, relativePath, AllSaved), relativePath) = 1
                  /\ checkFile_try(TurnStart, relativePath, AllSaved).watchedFiles[relativePath] = <<>>
            /\ (watchedFiles[relativePath] # <<>> /\ fsFiles[relativePath] # <<>>) =>
                  DeletesBy(checkFile_try(TurnStart, relativePath, AllSaved), relativePath) = 0
            /\ watchedFiles[relativePath] = <<>> =>
                  DeletesBy(watchFile(TurnStart, relativePath, AllSaved), relativePath) = 0

\* C38: while the extension is recording, one listener of each kind is
\* registered, and an event of the editor is written once.
C38_ListenersRegisteredOnce ==
    extension.isRecording =>
        /\ extension.disposables = 1
        /\ \A action \in EditorEvents \ {"save"}, filePath \in Paths :
              Len(Repeated(handleEditorEvent(action, filePath), extension.disposables)) = 1

\* The timeouts of filePath among ts that are pending
Pending(ts, filePath) == {k \in 1..Len(ts) : ts[k].filePath = filePath /\ ts[k].live}

\* After the step at most one timeout is pending per file, and it is the one
\* of debounceTimers.
OnePending ==
    \A filePath \in Paths :
        /\ Cardinality(Pending(timeouts', filePath)) <= 1
        /\ \A k \in Pending(timeouts', filePath) : extension'.debounceTimers[filePath] = k

\* The step ends the timeout k, which was pending.
Ends(k) == timeouts[k].live /\ ~timeouts'[k].live

\* A later change of the same document takes the place of the timeout k.
Replaced(k) ==
    /\ Len(timeouts') > Len(timeouts)
    /\ timeouts'[Len(timeouts')].filePath = timeouts[k].filePath
    /\ timeouts'[Len(timeouts')].live

\* The timeout k fires debounceMs or more after the change that set it, and
\* what it writes is lines.
Fires(k, lines) ==
    /\ now >= timeouts[k].changed + debounceMs
    /\ console' = console \o lines

\* The one line of a recorded change of the document of the timeout k
ChangeOf(k) == <<[action |-> "change", file |-> timeouts[k].filePath, at |-> now]>>

DeletedAt(filePath) ==
    {e.timestamp : e \in {d \in Range(events) : d.source = filePath /\ d.data.action = "delete"}}
FileDeletedAt(filePath) ==
    {e.timestamp : e \in {d \in Range(sessionFile.events) :
                              d.source = filePath /\ d.type = "file_delete"}}

\* The step appends a delete event of filePath to the events table; to the
\* data of the daemon of ctm.js
Deletes(filePath) ==
    /\ Len(events') = Len(events) + 1
    /\ events'[Len(events')].source = filePath
    /\ events'[Len(events')].data.action = "delete"
FileDeletes(filePath) ==
    /\ Len(daemonData'.events) = Len(daemonData.events) + 1
    /\ daemonData'.events[Len(daemonData'.events)].source = filePath
    /\ daemonData'.events[Len(daemonData'.events)].type = "file_delete"

\* The path was deleted at or before t, with a snapshot captured before that.
DeletedAfterCapture(deleted, snapshots, t) ==
    \E d \in deleted : d <= t /\ AtOrBefore(snapshots, d) # {}

====
